---- MODULE Spec2Model ----
(***************************************************************************)
(* Model of the Dataproc monitoring agent's analysis core:                 *)
(*   analytics/anomaly_detection.py  - the four detectors and the          *)
(*                                     synthesizer                         *)
(*   reporting/report_builder.py     - build_status_report                 *)
(*   repositories/run_state_repository.py - SparkRunState                  *)
(*   analytics/performance_memory.py - load_baselines                      *)
(*   repositories/bigquery_repository.py  - DataprocFact, the fact table   *)
(*   tools/dataproc_pipeline.py      - the three tool functions            *)
(*                                                                         *)
(* Numbers.  Python floats are modelled by integers; a quotient a / b is   *)
(* never formed, it is compared with a threshold n / d by cross            *)
(* multiplication (QuotLT and friends), which is exact.  Durations are     *)
(* counted in tenths of a second, so 149.9 s is 1499 and 100 s is 1000.    *)
(*                                                                         *)
(* Optional and loosely typed JSON scalars are tagged records              *)
(* [tag, val]: "none" (None or a missing key), "num" (a number), "text"    *)
(* (a string float() rejects) and "numtext" (a string float() parses to    *)
(* val).  Identifier strings use the string "None" for None.               *)
(***************************************************************************)
EXTENDS Integers, Sequences, FiniteSets, TLC

VARIABLES
    fact,             \* DataprocFact handed to a detector: job_id, cluster_name, duration_seconds
    baseline,         \* BaselineStats | None
    spark_metrics,    \* spark_metrics mapping | None
    cost_summary,     \* cost_summary mapping | None
    cluster_profile,  \* cluster_profile mapping | None
    job_family,       \* job_family argument of synthesize_anomaly_flags
    run_identifier,   \* run_identifier argument of synthesize_anomaly_flags
    op,               \* which function was applied to the inputs ("none" before the call)
    result,           \* what it returned
    facts,            \* the batch handed to build_status_report
    report,           \* what build_status_report returned for it
    run_state,        \* the SparkRunState whose duration_seconds is read
    fact_table,       \* rows of the performance table (config.fully_qualified_table)
    as_of,            \* utc_now() of the last build, in days
    dry_run,          \* config.dry_run
    session,          \* tool_context.state
    response,         \* what the last call returned, or that it raised
    baselines,        \* the map load_baselines returned to the last build
    built,            \* the local list `facts` of the last build
    environ,          \* os.environ, the DATAPROC_* variables
    overrides,        \* the overrides handed to load_config
    config            \* what load_config returned, or that it raised

detect_vars == <<fact, baseline, spark_metrics, cost_summary, cluster_profile,
                 job_family, run_identifier, op, result>>
report_vars == <<facts, report>>
pipeline_vars == <<run_state, fact_table, as_of, dry_run, session, response,
                   baselines, built>>
config_vars == <<environ, overrides, config>>
vars == <<fact, baseline, spark_metrics, cost_summary, cluster_profile,
          job_family, run_identifier, op, result, facts, report,
          run_state, fact_table, as_of, dry_run, session, response, baselines, built,
          environ, overrides, config>>

----------------------------------------------------------------------------
(* Scalars *)

None == [tag |-> "none", val |-> 0]
Num(n) == [tag |-> "num", val |-> n]
Text == [tag |-> "text", val |-> 0]
NumText(n) == [tag |-> "numtext", val |-> n]
\* A JSON integer beyond the range of a float: float() raises OverflowError on it.
Huge == [tag |-> "huge", val |-> 0]

IsNone(x) == x.tag = "none"
IsNum(x) == x.tag = "num"
Overflows(x) == x.tag = "huge"

\* Python truthiness of a scalar: None and 0 are falsy, any non-empty string is truthy.
Truthy(x) == IF x.tag = "none" THEN FALSE
             ELSE IF x.tag = "num" THEN x.val # 0
             ELSE TRUE

NoneStr == "None"

\* `a or b` on identifier strings.
StrOr(a, b) == IF a = NoneStr \/ a = "" THEN b ELSE a

\* float(value) guarded by try/except (TypeError, ValueError): None for None and for
\* rejected text.  An OverflowError is not caught: Huge stands for the call raising, and
\* every caller turns it into its own raising.
_safe_float(value) ==
    IF value.tag = "none" THEN None
    ELSE IF value.tag = "num" THEN value
    ELSE IF value.tag = "numtext" THEN Num(value.val)
    ELSE IF value.tag = "huge" THEN Huge
    ELSE None

\* n / d compared with a / b, for d # 0 and b > 0.
QuotLT(n, d, a, b) == IF d > 0 THEN n * b < a * d ELSE n * b > a * d
QuotLE(n, d, a, b) == IF d > 0 THEN n * b <= a * d ELSE n * b >= a * d
QuotGE(n, d, a, b) == ~QuotLT(n, d, a, b)
QuotGT(n, d, a, b) == ~QuotLE(n, d, a, b)

\* n1 / d1 > n2 / d2, for d1 > 0 and d2 > 0.
RatioGT(n1, d1, n2, d2) == n1 * d2 > n2 * d1

\* A value formatted with two decimals, as f"{x:.2f}" of n / d (d > 0, n >= 0), in hundredths.
Format2f(n, d) == (200 * n + d) \div (2 * d)

----------------------------------------------------------------------------
(* Anomaly *)

NoAnomaly == [kind |-> "None", severity |-> "None", message |-> <<>>,
              evidence |-> [none |-> TRUE], action |-> <<>>]

Anomaly(kind, severity, message, evidence, action) ==
    [kind |-> kind, severity |-> severity, message |-> message,
     evidence |-> evidence, action |-> action]

\* The return value when the function raises instead of returning.
Raised == [kind |-> "raised", severity |-> "None", message |-> <<>>,
           evidence |-> [none |-> TRUE], action |-> <<>>]

\* `if anomaly:` on a detector's return value.
IsAnomaly(a) == a.kind # "None" /\ a.kind # "raised"

NoBaseline == [present |-> FALSE, p50_duration |-> None, p95_duration |-> None,
               avg_app_vcore_seconds |-> None, avg_app_memory_gb_seconds |-> None,
               run_count |-> 0]

BaselineStats(p50, p95, avg_v, avg_m, n) ==
    [present |-> TRUE, p50_duration |-> p50, p95_duration |-> p95,
     avg_app_vcore_seconds |-> avg_v, avg_app_memory_gb_seconds |-> avg_m,
     run_count |-> n]

----------------------------------------------------------------------------
(* detect_job_runtime_anomaly *)

RuntimeRatioMin == <<3, 2>>        \* 1.5
RuntimeRatioCritical == <<2, 1>>   \* 2.0

\* Mutant: declines at a ratio of exactly 1.5 (`ratio <= 1.5`).
detect_job_runtime_anomaly_DeclineAtThreshold(f, b) ==
    IF ~Truthy(f.duration_seconds) \/ f.duration_seconds.val <= 0 THEN NoAnomaly
    ELSE IF ~b.present \/ ~Truthy(b.p50_duration) THEN NoAnomaly
    ELSE LET d == f.duration_seconds.val
             p == b.p50_duration.val
         IN  IF QuotLE(d, p, RuntimeRatioMin[1], RuntimeRatioMin[2]) THEN NoAnomaly
             ELSE Anomaly("job_runtime_regression",
                          IF QuotGE(d, p, RuntimeRatioCritical[1], RuntimeRatioCritical[2])
                              THEN "critical" ELSE "warning",
                          <<"Runtime", d, p>>,
                          [job_id |-> f.job_id, duration_seconds |-> d,
                           baseline_p50_seconds |-> p,
                           baseline_p95_seconds |-> b.p95_duration,
                           baseline_run_count |-> b.run_count],
                          <<"ReviewRecentChanges">>)

detect_job_runtime_anomaly(f, b) ==
    IF ~Truthy(f.duration_seconds) \/ f.duration_seconds.val <= 0 THEN NoAnomaly
    ELSE IF ~b.present \/ ~Truthy(b.p50_duration) THEN NoAnomaly
    ELSE LET d == f.duration_seconds.val
             p == b.p50_duration.val
         IN  IF QuotLT(d, p, RuntimeRatioMin[1], RuntimeRatioMin[2]) THEN NoAnomaly
             ELSE Anomaly("job_runtime_regression",
                          IF QuotGE(d, p, RuntimeRatioCritical[1], RuntimeRatioCritical[2])
                              THEN "critical" ELSE "warning",
                          <<"Runtime", d, p>>,
                          [job_id |-> f.job_id, duration_seconds |-> d,
                           baseline_p50_seconds |-> p,
                           baseline_p95_seconds |-> b.p95_duration,
                           baseline_run_count |-> b.run_count],
                          <<"ReviewRecentChanges">>)

----------------------------------------------------------------------------
(* detect_task_straggler and its stage helpers *)

StragglerRatioMin == 3
StragglerRatioCritical == 5

\* `a or b` on scalars.
ValOr(a, b) == IF Truthy(a) THEN a ELSE b

\* One summary entry per stage that is a dict and has an id.
RECURSIVE _extract_stage_lookup_from(_, _)
_extract_stage_lookup_from(stages, i) ==
    IF i > Len(stages) THEN <<>>
    ELSE LET stage == stages[i]
             stage_id == ValOr(stage.stage_id, stage.stageId)
             rest == _extract_stage_lookup_from(stages, i + 1)
         IN  IF ~stage.isdict \/ IsNone(stage_id) THEN rest
             ELSE <<[stage_id |-> stage_id,
                     name |-> stage.name,
                     max_task_duration_ms |->
                         _safe_float(ValOr(stage.max_task_duration_ms, None)),
                     p95_task_duration_ms |->
                         _safe_float(ValOr(stage.p95_task_duration_ms, None))]>> \o rest

\* _extract_stage_lookup raises: _safe_float meets an integer beyond the float range in a
\* stage that has an id.
StageLookupRaises(sm) ==
    /\ sm.present /\ ~sm.empty /\ sm.stages_is_list
    /\ \E i \in 1..Len(sm.stages) :
          /\ sm.stages[i].isdict
          /\ ~IsNone(ValOr(sm.stages[i].stage_id, sm.stages[i].stageId))
          /\ \/ Overflows(sm.stages[i].max_task_duration_ms)
             \/ Overflows(sm.stages[i].p95_task_duration_ms)

_extract_stage_lookup(sm) ==
    IF ~sm.present \/ sm.empty THEN <<>>
    ELSE IF ~sm.stages_is_list THEN <<>>
    ELSE _extract_stage_lookup_from(sm.stages, 1)

\* The score of a stage as a fraction <<n, d>> with d > 0:
\* max_task_duration_ms, times max / p95 when that ratio exceeds 1.
StageScore(stage) ==
    LET m == stage.max_task_duration_ms.val
        p95 == stage.p95_task_duration_ms
    IN  IF Truthy(p95) /\ QuotGT(m, p95.val, 1, 1)
        THEN IF p95.val > 0 THEN <<m * m, p95.val>> ELSE <<-(m * m), -p95.val>>
        ELSE <<m, 1>>

\* The loop of _locate_stage_hint from stage i on: the index of the candidate (0 for None).
RECURSIVE _locate_stage_hint_from(_, _, _, _)
_locate_stage_hint_from(stages, i, candidate, best_value) ==
    IF i > Len(stages) THEN candidate
    ELSE IF IsNone(stages[i].max_task_duration_ms)
         THEN _locate_stage_hint_from(stages, i + 1, candidate, best_value)
    ELSE LET score == StageScore(stages[i])
         IN  IF score[1] * best_value[2] > best_value[1] * score[2]
             THEN _locate_stage_hint_from(stages, i + 1, i, score)
             ELSE _locate_stage_hint_from(stages, i + 1, candidate, best_value)

_locate_stage_hint(stages) == _locate_stage_hint_from(stages, 1, 0, <<-1, 1>>)

\* Mutant: a later job of equal ratio replaces the candidate (`ratio >= ratio_value`).
RECURSIVE StragglerScan_LastOnTies(_, _, _, _)
StragglerScan_LastOnTies(jobs, i, candidate, ratio_value) ==
    IF i > Len(jobs) THEN <<candidate, ratio_value>>
    ELSE LET job == jobs[i]
             ratio == _safe_float(job.max_over_median_ratio)
         IN  IF ~job.isdict \/ IsNone(ratio) \/ ratio.val <= StragglerRatioMin
             THEN StragglerScan_LastOnTies(jobs, i + 1, candidate, ratio_value)
             ELSE IF candidate = 0 \/ ratio.val >= ratio_value
                  THEN StragglerScan_LastOnTies(jobs, i + 1, i, ratio.val)
                  ELSE StragglerScan_LastOnTies(jobs, i + 1, candidate, ratio_value)

\* The loop over jobs from job i on: <<index of the candidate (0 for None), ratio_value>>,
\* or <<-1, 0>> when float(ratio_raw) raises OverflowError.
RECURSIVE StragglerScan(_, _, _, _)
StragglerScan(jobs, i, candidate, ratio_value) ==
    IF i > Len(jobs) THEN <<candidate, ratio_value>>
    ELSE LET job == jobs[i]
             ratio == _safe_float(job.max_over_median_ratio)
         IN  IF job.isdict /\ Overflows(ratio) THEN <<-1, 0>>    \* float() raises
             ELSE IF ~job.isdict \/ IsNone(ratio) \/ ratio.val <= StragglerRatioMin
             THEN StragglerScan(jobs, i + 1, candidate, ratio_value)
             ELSE IF candidate = 0 \/ ratio.val > (IF ratio_value # 0 THEN ratio_value ELSE 0)
                  THEN StragglerScan(jobs, i + 1, i, ratio.val)
                  ELSE StragglerScan(jobs, i + 1, candidate, ratio_value)

detect_task_straggler(f, sm) ==
    IF ~sm.present \/ sm.empty THEN NoAnomaly
    ELSE IF ~sm.jobs_is_list THEN NoAnomaly
    ELSE IF StageLookupRaises(sm) THEN Raised
    ELSE LET stage_lookup == _extract_stage_lookup(sm)
             scan == StragglerScan(sm.jobs, 1, 0, 0)
             candidate == scan[1]
             ratio_value == scan[2]
         IN  IF candidate = -1 THEN Raised
             ELSE IF candidate = 0 THEN NoAnomaly
             ELSE LET job == sm.jobs[candidate]
                      hint == _locate_stage_hint(stage_lookup)
                      stage_evidence == IF hint = 0 THEN <<>> ELSE <<stage_lookup[hint]>>
                  IN  Anomaly("task_straggler_detected",
                              IF ratio_value >= StragglerRatioCritical
                                  THEN "critical" ELSE "warning",
                              <<"TaskSkew", ratio_value, stage_evidence>>,
                              [job_index |-> candidate,
                               job_id |-> ValOr(job.job_id, None),
                               fact_job_id |-> IF Truthy(job.job_id) THEN NoneStr
                                               ELSE f.job_id,
                               ratio |-> ratio_value,
                               stage |-> stage_evidence],
                              IF hint = 0 THEN <<"InvestigateSkew">>
                              ELSE <<"TargetStage", stage_lookup[hint].stage_id,
                                     stage_lookup[hint].name>>)

----------------------------------------------------------------------------
(* detect_cost_regression *)

CostRatioMin == <<13, 10>>        \* 1.3
CostRatioCritical == <<7, 4>>     \* 1.75

\* The candidate list: <<metric_name, current_value, baseline_value>> per metric with a
\* numeric current value and a truthy baseline average.
CostFindings(b, cs) ==
    LET current_vcores == _safe_float(cs.app_vcore_seconds)
        current_memory == _safe_float(cs.app_memory_gb_seconds)
    IN  (IF ~IsNone(current_vcores) /\ Truthy(b.avg_app_vcore_seconds)
            THEN <<<<"vcore_seconds", current_vcores.val, b.avg_app_vcore_seconds.val>>>>
            ELSE <<>>)
        \o
        (IF ~IsNone(current_memory) /\ Truthy(b.avg_app_memory_gb_seconds)
            THEN <<<<"memory_gb_seconds", current_memory.val,
                     b.avg_app_memory_gb_seconds.val>>>>
            ELSE <<>>)

\* Mutant: a metric of equal ratio replaces the dominant one (`ratio >= ratio_dominant`).
RECURSIVE CostScan_LastOnTies(_, _, _)
CostScan_LastOnTies(findings, i, dominant) ==
    IF i > Len(findings) THEN dominant
    ELSE LET current_value == findings[i][2]
             baseline_value == findings[i][3]
         IN  IF baseline_value <= 0 THEN CostScan_LastOnTies(findings, i + 1, dominant)
             ELSE IF QuotLE(current_value, baseline_value, CostRatioMin[1], CostRatioMin[2])
                  THEN CostScan_LastOnTies(findings, i + 1, dominant)
             ELSE IF (IF dominant = 0 THEN current_value >= 0
                      ELSE ~RatioGT(findings[dominant][2], findings[dominant][3],
                                    current_value, baseline_value))
                  THEN CostScan_LastOnTies(findings, i + 1, i)
             ELSE CostScan_LastOnTies(findings, i + 1, dominant)

\* The loop over the candidate list from entry i on: the index of the dominant entry
\* (0 for None); ratio_dominant is the ratio of that entry, 0.0 before any.
RECURSIVE CostScan(_, _, _)
CostScan(findings, i, dominant) ==
    IF i > Len(findings) THEN dominant
    ELSE LET current_value == findings[i][2]
             baseline_value == findings[i][3]
         IN  IF baseline_value <= 0 THEN CostScan(findings, i + 1, dominant)
             ELSE IF QuotLE(current_value, baseline_value, CostRatioMin[1], CostRatioMin[2])
                  THEN CostScan(findings, i + 1, dominant)
             ELSE IF (IF dominant = 0 THEN current_value > 0
                      ELSE RatioGT(current_value, baseline_value,
                                   findings[dominant][2], findings[dominant][3]))
                  THEN CostScan(findings, i + 1, i)
             ELSE CostScan(findings, i + 1, dominant)

detect_cost_regression(f, b, cs) ==
    IF ~b.present \/ ~cs.present \/ cs.empty THEN NoAnomaly
    ELSE IF Overflows(cs.app_vcore_seconds) \/ Overflows(cs.app_memory_gb_seconds)
         THEN Raised                                  \* _safe_float: OverflowError
    ELSE LET findings == CostFindings(b, cs)
             dominant == CostScan(findings, 1, 0)
         IN  IF dominant = 0 THEN NoAnomaly
             ELSE LET metric_name == findings[dominant][1]
                      current_value == findings[dominant][2]
                      baseline_value == findings[dominant][3]
                  IN  Anomaly("cost_regression",
                              IF QuotLT(current_value, baseline_value,
                                        CostRatioCritical[1], CostRatioCritical[2])
                                  THEN "warning" ELSE "critical",
                              <<metric_name, current_value, baseline_value>>,
                              [metric |-> metric_name, current |-> current_value,
                               baseline_average |-> baseline_value],
                              <<"ReviewExecutorSizing", metric_name,
                                Format2f(current_value, baseline_value)>>)

----------------------------------------------------------------------------
(* detect_cluster_rightsizing *)

UnderutilizedBelow == <<9, 20>>    \* 0.45
NearLimitFrom == <<19, 20>>        \* 0.95

\* Mutant: a utilization of exactly 0.45 counts as underutilized (`utilization <= 0.45`).
detect_cluster_rightsizing_InclusiveLowBand(f, cp, cs) ==
    IF ~cp.present \/ cp.empty \/ ~cs.present \/ cs.empty THEN NoAnomaly
    ELSE IF ~Truthy(cp.total_workers) THEN NoAnomaly
    ELSE IF ~IsNum(cp.total_workers) THEN Raised
    ELSE IF cp.total_workers.val <= 0 THEN NoAnomaly
    ELSE LET executor_peak == _safe_float(cs.executor_peak)
             total_workers == cp.total_workers.val
         IN  IF IsNone(executor_peak) THEN NoAnomaly
             ELSE IF QuotLE(executor_peak.val, total_workers,
                            UnderutilizedBelow[1], UnderutilizedBelow[2])
                  THEN Anomaly("cluster_underutilized", "info",
                               <<f.cluster_name, executor_peak.val, total_workers>>,
                               [executor_peak |-> executor_peak.val,
                                total_workers |-> total_workers],
                               <<"RightSize">>)
             ELSE IF QuotGE(executor_peak.val, total_workers,
                            NearLimitFrom[1], NearLimitFrom[2])
                  THEN Anomaly("cluster_capacity_near_limit", "warning",
                               <<f.cluster_name, executor_peak.val, total_workers>>,
                               [executor_peak |-> executor_peak.val,
                                total_workers |-> total_workers],
                               <<"IncreaseCapacity">>)
             ELSE NoAnomaly

detect_cluster_rightsizing(f, cp, cs) ==
    IF ~cp.present \/ cp.empty \/ ~cs.present \/ cs.empty THEN NoAnomaly
    ELSE IF ~Truthy(cp.total_workers) THEN NoAnomaly
    ELSE IF ~IsNum(cp.total_workers) THEN Raised      \* str <= int: TypeError
                                                      \* (float / huge int: OverflowError)
    ELSE IF cp.total_workers.val <= 0 THEN NoAnomaly
    ELSE LET executor_peak == _safe_float(cs.executor_peak)
             total_workers == cp.total_workers.val
         IN  IF Overflows(executor_peak) THEN Raised  \* _safe_float: OverflowError
             ELSE IF IsNone(executor_peak) THEN NoAnomaly
             ELSE IF QuotLT(executor_peak.val, total_workers,
                            UnderutilizedBelow[1], UnderutilizedBelow[2])
                  THEN Anomaly("cluster_underutilized", "info",
                               <<f.cluster_name, executor_peak.val, total_workers>>,
                               [executor_peak |-> executor_peak.val,
                                total_workers |-> total_workers],
                               <<"RightSize">>)
             ELSE IF QuotGE(executor_peak.val, total_workers,
                            NearLimitFrom[1], NearLimitFrom[2])
                  THEN Anomaly("cluster_capacity_near_limit", "warning",
                               <<f.cluster_name, executor_peak.val, total_workers>>,
                               [executor_peak |-> executor_peak.val,
                                total_workers |-> total_workers],
                               <<"IncreaseCapacity">>)
             ELSE NoAnomaly

----------------------------------------------------------------------------
(* synthesize_anomaly_flags *)

\* Mutant: a run without a baseline is measured against a fleet-wide default baseline.
SynthFindings_DefaultBaseline(f, b, sm, cs, cp) ==
    LET used == IF b.present THEN b
                ELSE BaselineStats(Num(1000), Num(1000), Num(100), Num(100), 0)
        runtime_anomaly == detect_job_runtime_anomaly(f, used)
        straggler == detect_task_straggler(f, sm)
        cost_regression == detect_cost_regression(f, used, cs)
        cluster_hint == detect_cluster_rightsizing(f, cp, cs)
    IN  (IF IsAnomaly(runtime_anomaly) THEN <<runtime_anomaly>> ELSE <<>>)
        \o (IF IsAnomaly(straggler) THEN <<straggler>> ELSE <<>>)
        \o (IF IsAnomaly(cost_regression) THEN <<cost_regression>> ELSE <<>>)
        \o (IF IsAnomaly(cluster_hint) THEN <<cluster_hint>> ELSE <<>>)

\* Mutant: the cost finding is appended before the straggler finding.
SynthFindings_CostBeforeStraggler(f, b, sm, cs, cp) ==
    LET runtime_anomaly == detect_job_runtime_anomaly(f, b)
        straggler == detect_task_straggler(f, sm)
        cost_regression == detect_cost_regression(f, b, cs)
        cluster_hint == detect_cluster_rightsizing(f, cp, cs)
    IN  (IF IsAnomaly(runtime_anomaly) THEN <<runtime_anomaly>> ELSE <<>>)
        \o (IF IsAnomaly(cost_regression) THEN <<cost_regression>> ELSE <<>>)
        \o (IF IsAnomaly(straggler) THEN <<straggler>> ELSE <<>>)
        \o (IF IsAnomaly(cluster_hint) THEN <<cluster_hint>> ELSE <<>>)

\* The detectors' returns in declaration order, without the None ones.
SynthFindings(f, b, sm, cs, cp) ==
    LET runtime_anomaly == detect_job_runtime_anomaly(f, b)
        straggler == detect_task_straggler(f, sm)
        cost_regression == detect_cost_regression(f, b, cs)
        cluster_hint == detect_cluster_rightsizing(f, cp, cs)
    IN  (IF IsAnomaly(runtime_anomaly) THEN <<runtime_anomaly>> ELSE <<>>)
        \o (IF IsAnomaly(straggler) THEN <<straggler>> ELSE <<>>)
        \o (IF IsAnomaly(cost_regression) THEN <<cost_regression>> ELSE <<>>)
        \o (IF IsAnomaly(cluster_hint) THEN <<cluster_hint>> ELSE <<>>)

\* Mutant: every finding contributes the same general advice.
Recommendations_GeneralAdvice(findings) == [i \in 1..Len(findings) |-> <<"Investigate">>]

\* [finding.action for finding in findings if finding.action]
RECURSIVE Recommendations(_)
Recommendations(findings) ==
    IF findings = <<>> THEN <<>>
    ELSE (IF Head(findings).action # <<>> THEN <<Head(findings).action>> ELSE <<>>)
         \o Recommendations(Tail(findings))

IssueSeverities == {"warning", "critical"}

\* Mutant: an info finding counts as an issue too.
HasIssues_InfoCounts(findings) ==
    \E i \in 1..Len(findings) : findings[i].severity \in IssueSeverities \cup {"info"}

\* any(finding.severity in {"warning", "critical"} for finding in findings)
HasIssues(findings) ==
    \E i \in 1..Len(findings) : findings[i].severity \in IssueSeverities

SynthRaises(f, b, sm, cs, cp) ==
    \/ detect_task_straggler(f, sm).kind = "raised"
    \/ detect_cost_regression(f, b, cs).kind = "raised"
    \/ detect_cluster_rightsizing(f, cp, cs).kind = "raised"

synthesize_anomaly_flags(f, b, sm, cs, cp, fam, rid) ==
    IF SynthRaises(f, b, sm, cs, cp)
    THEN [raised |-> TRUE, findings |-> <<>>, cost_summary |-> <<>>,
          baseline_reference |-> NoBaseline, job_family |-> fam,
          run_identifier |-> rid, recommendations |-> <<>>, has_issues |-> FALSE]
    ELSE LET findings == SynthFindings(f, b, sm, cs, cp)
         IN  [raised |-> FALSE,
              findings |-> findings,
              cost_summary |-> IF cs.present /\ ~cs.empty
                               THEN <<cs.app_vcore_seconds, cs.app_memory_gb_seconds,
                                      cs.executor_peak>>
                               ELSE <<None, None, None>>,
              baseline_reference |-> b,
              job_family |-> fam,
              run_identifier |-> rid,
              recommendations |-> Recommendations(findings),
              has_issues |-> HasIssues(findings)]

----------------------------------------------------------------------------
(* The pipeline before any tool call *)

\* tool_context.state without the three keys the tools write.
EmptySession ==
    [dataproc_ingestion |-> [present |-> FALSE, runs |-> <<>>],
     dataproc_facts |-> [present |-> FALSE, rows |-> <<>>],
     dataproc_report |-> [present |-> FALSE]]

NoRunState == [present |-> FALSE]
NoResponse == [call |-> "none"]

PipelineIdle ==
    /\ run_state = NoRunState
    /\ fact_table = <<>>
    /\ as_of = 0
    /\ dry_run = FALSE
    /\ session = EmptySession
    /\ response = NoResponse
    /\ baselines = <<>>
    /\ built = <<>>

----------------------------------------------------------------------------
(* MonitoringConfig and load_config (config/settings.py) *)

\* Values of the environment, of the overrides and of the configuration: a key that is
\* not there, None, a str, an int, a bool.
CfgAbsent == [t |-> "absent"]
CfgNone == [t |-> "none"]
CfgStr(s) == [t |-> "str", v |-> s]
CfgInt(n) == [t |-> "int", v |-> n]
CfgBool(b) == [t |-> "bool", v |-> b]

\* The fields of MonitoringConfig the model follows: the two required ones, an int, a
\* str with a default, an optional str, a second str with a default, and the bool.
ConfigFields ==
    {"project_id", "region", "lookback_hours", "bq_dataset", "run_state_dataset",
     "run_state_table", "dry_run"}

\* The defaults of the dataclass.
DefaultLookbackHours == 24
ConfigDefaults ==
    [project_id |-> CfgAbsent,
     region |-> CfgAbsent,
     lookback_hours |-> CfgInt(DefaultLookbackHours),
     bq_dataset |-> CfgStr("dataproc_monitoring"),
     run_state_dataset |-> CfgNone,
     run_state_table |-> CfgStr("cag_run_state"),
     dry_run |-> CfgBool(FALSE)]

\* The call raised instead of returning a configuration.
ConfigRaised(error) == [raised |-> TRUE, error |-> error]
IsConfig(c) == "raised" \notin DOMAIN c
NoConfig == [raised |-> FALSE, error |-> "not called"]

\* int(text) on the texts of the model; int("abc") raises ValueError.
IntTexts == {"6", "12", "24"}
IntOfText(text) ==
    CASE text = "6" -> 6
      [] text = "12" -> 12
      [] text = "24" -> DefaultLookbackHours

\* str(n) on the integers of the model.
TextOfInt(n) ==
    CASE n = 6 -> "6"
      [] n = 12 -> "12"
      [] n = DefaultLookbackHours -> "24"

\* text.lower() on the texts of the model.
Lower(text) ==
    CASE text = "TRUE" -> "true"
      [] text = "True" -> "true"
      [] text = "Yes" -> "yes"
      [] text = "False" -> "false"
      [] OTHER -> text

\* str(value)
StrOf(value) ==
    CASE value.t = "str" -> value.v
      [] value.t = "int" -> TextOfInt(value.v)
      [] value.t = "bool" -> (IF value.v THEN "True" ELSE "False")
      [] value.t = "none" -> "None"

\* bool(value)
CfgTruthy(value) ==
    CASE value.t = "str" -> value.v # ""
      [] value.t = "int" -> value.v # 0
      [] value.t = "bool" -> value.v
      [] OTHER -> FALSE

\* int(value) raises: ValueError for a text that is no integer, TypeError for None.
IntRaises(value) ==
    \/ value.t = "none"
    \/ value.t = "str" /\ value.v \notin IntTexts

\* int(value)
IntOf(value) ==
    CASE value.t = "int" -> value.v
      [] value.t = "bool" -> (IF value.v THEN 1 ELSE 0)
      [] value.t = "str" -> IntOfText(value.v)

\* mapping.get(key, default)
GetOr(mapping, key, default) ==
    IF mapping[key] = CfgAbsent THEN default ELSE mapping[key]

\* mapping.get(key) or None
GetOrNone(mapping, key) ==
    IF CfgTruthy(mapping[key]) THEN mapping[key] ELSE CfgNone

\* text.lower() in {"1", "true", "yes"}
IsTrueText(text) == Lower(text) \in {"1", "true", "yes"}

\* MonitoringConfig.from_env
from_env(env) ==
    IF ~CfgTruthy(env.project_id) \/ ~CfgTruthy(env.region)
    THEN ConfigRaised("ValueError")             \* _require
    ELSE IF IntRaises(GetOr(env, "lookback_hours", CfgStr("24")))
    THEN ConfigRaised("ValueError")             \* int("abc")
    ELSE [project_id |-> env.project_id,
          region |-> env.region,
          lookback_hours |-> CfgInt(IntOf(GetOr(env, "lookback_hours", CfgStr("24")))),
          bq_dataset |-> GetOr(env, "bq_dataset", CfgStr("dataproc_monitoring")),
          run_state_dataset |-> GetOrNone(env, "run_state_dataset"),
          run_state_table |-> GetOr(env, "run_state_table", CfgStr("cag_run_state")),
          dry_run |-> CfgBool(IsTrueText(StrOf(GetOr(env, "dry_run", CfgStr("false")))))]

\* Mutant: dry_run is taken from the overrides only when it is a text.
from_overrides_BoolIgnored(ov) ==
    IF ov.project_id = CfgAbsent \/ ov.region = CfgAbsent
    THEN ConfigRaised("ValueError")
    ELSE IF IntRaises(GetOr(ov, "lookback_hours", CfgInt(DefaultLookbackHours)))
    THEN ConfigRaised("ValueError")
    ELSE [project_id |-> CfgStr(StrOf(ov.project_id)),
          region |-> CfgStr(StrOf(ov.region)),
          lookback_hours |->
              CfgInt(IntOf(GetOr(ov, "lookback_hours", CfgInt(DefaultLookbackHours)))),
          bq_dataset |-> CfgStr(StrOf(GetOr(ov, "bq_dataset", CfgStr("dataproc_monitoring")))),
          run_state_dataset |-> GetOrNone(ov, "run_state_dataset"),
          run_state_table |->
              CfgStr(StrOf(GetOr(ov, "run_state_table", CfgStr("cag_run_state")))),
          dry_run |-> CfgBool(/\ ov.dry_run.t = "str"
                              /\ IsTrueText(ov.dry_run.v))]

\* MonitoringConfig.from_overrides
from_overrides(ov) ==
    IF ov.project_id = CfgAbsent \/ ov.region = CfgAbsent
    THEN ConfigRaised("ValueError")             \* KeyError turned into ValueError
    ELSE IF IntRaises(GetOr(ov, "lookback_hours", CfgInt(DefaultLookbackHours)))
    THEN ConfigRaised("ValueError")
    ELSE [project_id |-> CfgStr(StrOf(ov.project_id)),
          region |-> CfgStr(StrOf(ov.region)),
          lookback_hours |->
              CfgInt(IntOf(GetOr(ov, "lookback_hours", CfgInt(DefaultLookbackHours)))),
          bq_dataset |-> CfgStr(StrOf(GetOr(ov, "bq_dataset", CfgStr("dataproc_monitoring")))),
          run_state_dataset |-> GetOrNone(ov, "run_state_dataset"),
          run_state_table |->
              CfgStr(StrOf(GetOr(ov, "run_state_table", CfgStr("cag_run_state")))),
          dry_run |-> CfgBool(IsTrueText(StrOf(GetOr(ov, "dry_run", CfgStr("false")))))]

\* `not overrides`: no key is there.
NoOverrides(ov) == \A f \in ConfigFields : ov[f] = CfgAbsent

\* base = asdict(config); base.update(overrides)
Updated(base, ov) == [f \in ConfigFields |-> IF ov[f] = CfgAbsent THEN base[f] ELSE ov[f]]

\* Mutant: the environment wins over the overrides.
load_config_EnvFirst(env, ov) ==
    IF ~IsConfig(from_env(env))
    THEN IF ov.project_id # CfgAbsent /\ ov.region # CfgAbsent
         THEN from_overrides(ov)
         ELSE from_env(env)
    ELSE from_env(env)

\* load_config
load_config(env, ov) ==
    IF ~IsConfig(from_env(env))
    THEN IF ov.project_id # CfgAbsent /\ ov.region # CfgAbsent
         THEN from_overrides(ov)
         ELSE from_env(env)                     \* raise env_error
    ELSE IF NoOverrides(ov) THEN from_env(env)
    ELSE from_overrides(Updated(from_env(env), ov))

\* MonitoringConfig.run_state_dataset_name
run_state_dataset_name(c) ==
    IF CfgTruthy(c.run_state_dataset) THEN c.run_state_dataset ELSE c.bq_dataset

\* Nothing was configured by a call yet.
ConfigIdle ==
    /\ environ = [f \in ConfigFields |-> CfgAbsent]
    /\ overrides = [f \in ConfigFields |-> CfgAbsent]
    /\ config = NoConfig

----------------------------------------------------------------------------
(* Inputs of the detectors *)

MaxJobs == 2       \* inner jobs per spark_metrics
MaxStages == 2     \* stages per spark_metrics

SeqsUpTo(S, n) == UNION {[1..k -> S] : k \in 0..n}

Fact(duration) == [job_id |-> "app-1", cluster_name |-> "cluster-a",
                   duration_seconds |-> duration]

NoSparkMetrics == [present |-> FALSE, empty |-> TRUE, jobs_is_list |-> FALSE, jobs |-> <<>>,
                   stages_is_list |-> FALSE, stages |-> <<>>]
EmptySparkMetrics == [NoSparkMetrics EXCEPT !.present = TRUE]
SparkMetrics(jobs, stages) ==
    [present |-> TRUE, empty |-> FALSE, jobs_is_list |-> TRUE, jobs |-> jobs,
     stages_is_list |-> TRUE, stages |-> stages]
\* A non-empty mapping without a "jobs" list.
SparkMetricsWithoutJobs == [present |-> TRUE, empty |-> FALSE, jobs_is_list |-> FALSE,
                            jobs |-> <<>>, stages_is_list |-> FALSE, stages |-> <<>>]

Job(id, ratio) == [isdict |-> TRUE, job_id |-> id, max_over_median_ratio |-> ratio]
NotADictJob == [isdict |-> FALSE, job_id |-> None, max_over_median_ratio |-> None]

Stage(id, name, max, p95) ==
    [isdict |-> TRUE, stage_id |-> id, stageId |-> None, name |-> name,
     max_task_duration_ms |-> max, p95_task_duration_ms |-> p95]
NotADictStage == [isdict |-> FALSE, stage_id |-> None, stageId |-> None, name |-> NoneStr,
                  max_task_duration_ms |-> None, p95_task_duration_ms |-> None]

NoCostSummary == [present |-> FALSE, empty |-> TRUE, app_vcore_seconds |-> None,
                  app_memory_gb_seconds |-> None, executor_peak |-> None]
EmptyCostSummary == [NoCostSummary EXCEPT !.present = TRUE]
CostSummary(v, m, peak) ==
    [present |-> TRUE, empty |-> FALSE, app_vcore_seconds |-> v,
     app_memory_gb_seconds |-> m, executor_peak |-> peak]

NoClusterProfile == [present |-> FALSE, empty |-> TRUE, total_workers |-> None]
EmptyClusterProfile == [NoClusterProfile EXCEPT !.present = TRUE]
ClusterProfile(tw) == [present |-> TRUE, empty |-> FALSE, total_workers |-> tw]

\* Durations in tenths of a second.
DurationValues == {None} \cup {Num(n) : n \in {-10, 0, 1000, 1499, 1500, 1999, 2000, 3000}}
P50Values == {None, Num(0), Num(1000), Num(-1000)}
BaselineAvgValues == {None, Num(0), Num(100), Num(200)}
CostValues == {None, Text, NumText(180)}
              \cup {Num(n) : n \in {0, 130, 131, 140, 174, 175, 180, 280}}
PeakValues == {None, Text, NumText(4)}
              \cup {Num(n) : n \in {-1, 0, 4, 8, 9, 10, 18, 19, 20, 30}}
WorkerValues == {None, Text, Num(0), Num(-5), Num(10), Num(20)}
RatioValues == {None, Text, NumText(6), Num(3), Num(4), Num(5), Num(6)}
JobIdValues == {None, Num(0), Num(3)}
JobValues == {NotADictJob} \cup {Job(id, r) : id \in JobIdValues, r \in RatioValues}
StageValues == {NotADictStage}
               \cup {Stage(id, "stage", max, p95) :
                       id \in {None, Num(0), Num(1)},
                       max \in {None, Num(10), Num(20)},
                       p95 \in {None, Num(0), Num(5), Num(20)}}
\* The values that sequences of several jobs or stages are drawn from.
CoreJobValues == {NotADictJob} \cup {Job(Num(3), r) : r \in RatioValues}
CoreStageValues == {NotADictStage}
                   \cup {Stage(id, "stage", max, p95) :
                           id \in {Num(0), Num(1)},
                           max \in {Num(10), Num(20)},
                           p95 \in {None, Num(5), Num(20)}}

Inputs(f, b, sm, cs, cp, fam, rid) ==
    [fact |-> f, baseline |-> b, spark_metrics |-> sm, cost_summary |-> cs,
     cluster_profile |-> cp, job_family |-> fam, run_identifier |-> rid]

RuntimeInputs ==
    {Inputs(Fact(d), b, NoSparkMetrics, NoCostSummary, NoClusterProfile, NoneStr, NoneStr) :
        d \in DurationValues,
        b \in {NoBaseline} \cup {BaselineStats(p, None, None, None, 4) : p \in P50Values}}

CostInputs ==
    {Inputs(Fact(Num(1000)), b, NoSparkMetrics, cs, NoClusterProfile, NoneStr, NoneStr) :
        b \in {NoBaseline}
              \cup {BaselineStats(Num(1000), None, av, am, 4) :
                      av \in BaselineAvgValues, am \in BaselineAvgValues},
        cs \in {NoCostSummary, EmptyCostSummary}
               \cup {CostSummary(v, m, None) : v \in CostValues, m \in CostValues}}

ClusterInputs ==
    {Inputs(Fact(Num(1000)), NoBaseline, NoSparkMetrics, cs, cp, NoneStr, NoneStr) :
        cs \in {NoCostSummary, EmptyCostSummary}
               \cup {CostSummary(None, None, pk) : pk \in PeakValues},
        cp \in {NoClusterProfile, EmptyClusterProfile}
               \cup {ClusterProfile(tw) : tw \in WorkerValues}}

StragglerJobInputs ==
    {Inputs(Fact(Num(1000)), NoBaseline, sm, NoCostSummary, NoClusterProfile, NoneStr, NoneStr) :
        sm \in {NoSparkMetrics, EmptySparkMetrics, SparkMetricsWithoutJobs}
               \cup {SparkMetrics(jobs, stages) :
                       jobs \in {<<j>> : j \in JobValues}
                                \cup SeqsUpTo(CoreJobValues, MaxJobs),
                       stages \in {<<>>, <<Stage(Num(1), "stage", Num(20), Num(5))>>}}}

StragglerStageInputs ==
    {Inputs(Fact(Num(1000)), NoBaseline, SparkMetrics(<<Job(Num(3), Num(4))>>, stages),
            NoCostSummary, NoClusterProfile, NoneStr, NoneStr) :
        stages \in {<<s>> : s \in StageValues} \cup SeqsUpTo(CoreStageValues, MaxStages)}

SynthInputs ==
    {Inputs(Fact(d), b, sm, cs, cp, fam, rid) :
        d \in {None, Num(1000), Num(1500), Num(2000)},
        b \in {NoBaseline,
               BaselineStats(Num(1000), Num(1800), Num(100), Num(100), 4),
               BaselineStats(None, None, Num(0), Num(200), 1)},
        sm \in {NoSparkMetrics,
                SparkMetrics(<<Job(Num(3), Num(4))>>, <<>>),
                SparkMetrics(<<Job(Num(0), Num(2)), Job(Num(3), Num(6))>>,
                             <<Stage(Num(1), "stage", Num(20), Num(5))>>)},
        cs \in {NoCostSummary}
               \cup {CostSummary(v, m, pk) :
                       v \in {None, Num(140)},
                       m \in {None, Num(130), Num(180)},
                       pk \in {None, Num(4), Num(9), Num(10)}},
        cp \in {NoClusterProfile, ClusterProfile(Num(10)), ClusterProfile(Text)},
        fam \in {NoneStr, "etl"},
        rid \in {NoneStr, "run-1"}}

DetectorInputs ==
    RuntimeInputs \cup CostInputs \cup ClusterInputs \cup StragglerJobInputs
    \cup StragglerStageInputs \cup SynthInputs

NoResult == [none |-> TRUE]

----------------------------------------------------------------------------
(* The analysis functions applied to one set of arguments *)


Init ==
    /\ ConfigIdle
    /\ \E in \in DetectorInputs :
          /\ fact = in.fact
          /\ baseline = in.baseline
          /\ spark_metrics = in.spark_metrics
          /\ cost_summary = in.cost_summary
          /\ cluster_profile = in.cluster_profile
          /\ job_family = in.job_family
          /\ run_identifier = in.run_identifier
    /\ op = "none"
    /\ result = NoResult
    /\ facts = <<>>
    /\ report = [rendered |-> FALSE]
    /\ PipelineIdle

Returns(name, value) ==
    /\ op = "none"
    /\ op' = name
    /\ result' = value
    /\ UNCHANGED <<fact, baseline, spark_metrics, cost_summary, cluster_profile,
                   job_family, run_identifier, facts, report>>
    /\ UNCHANGED pipeline_vars
    /\ UNCHANGED config_vars

DetectJobRuntimeAnomaly ==
    Returns("detect_job_runtime_anomaly", detect_job_runtime_anomaly(fact, baseline))

DetectTaskStraggler ==
    Returns("detect_task_straggler", detect_task_straggler(fact, spark_metrics))

DetectCostRegression ==
    Returns("detect_cost_regression", detect_cost_regression(fact, baseline, cost_summary))

DetectClusterRightsizing ==
    Returns("detect_cluster_rightsizing",
            detect_cluster_rightsizing(fact, cluster_profile, cost_summary))

SynthesizeAnomalyFlags ==
    Returns("synthesize_anomaly_flags",
            synthesize_anomaly_flags(fact, baseline, spark_metrics, cost_summary,
                                     cluster_profile, job_family, run_identifier))

Next ==
    \/ DetectJobRuntimeAnomaly
    \/ DetectTaskStraggler
    \/ DetectCostRegression
    \/ DetectClusterRightsizing
    \/ SynthesizeAnomalyFlags

Spec == Init /\ [][Next]_vars

----------------------------------------------------------------------------
(* Properties of the detectors and of the synthesizer (specification Spec) *)

\* A scalar float() accepts, and its value.
Numeric(x) == x.tag = "num" \/ x.tag = "numtext"

\* C1: detect_job_runtime_anomaly returns a finding exactly when the duration is present
\* and positive, the baseline exists with a present non-zero p50, and duration / p50 is at
\* least 1.5; the finding is critical exactly when duration / p50 is at least 2.0 and a
\* warning otherwise.
C1_RuntimeFiresIffRatioAtLeastOneAndAHalf ==
    op = "detect_job_runtime_anomaly" =>
        LET d == fact.duration_seconds
            p == baseline.p50_duration
            fires == /\ IsNum(d) /\ d.val > 0
                     /\ baseline.present /\ IsNum(p) /\ p.val # 0
                     /\ p.val > 0 /\ 2 * d.val >= 3 * p.val
        IN  /\ result.kind \in {"None", "job_runtime_regression"}
            /\ (result.kind = "job_runtime_regression") <=> fires
            /\ fires => (result.severity = "critical" <=> d.val >= 2 * p.val)
            /\ fires => result.severity \in {"critical", "warning"}

\* 150 s against a median of 100 s is reported, as a warning.
C1_Witness ==
    /\ op = "detect_job_runtime_anomaly"
    /\ fact.duration_seconds = Num(1500)
    /\ baseline.present /\ baseline.p50_duration = Num(1000)
    /\ result.kind = "job_runtime_regression"
    /\ result.severity = "warning"

CostQualifies(current, avg) ==
    /\ Numeric(current)
    /\ IsNum(avg) /\ avg.val > 0
    /\ 10 * current.val > 13 * avg.val

\* C2: detect_cost_regression looks at vcore-seconds and memory-gb-seconds, each only when
\* its current value is numeric and its baseline average positive; a metric qualifies when
\* current / average exceeds 1.3; no finding exactly when none qualifies, otherwise the
\* finding is about the qualifying metric of highest ratio (vcore-seconds on equal ratios),
\* a warning below 1.75 and critical from 1.75 on.
C2_CostReportsDominantQualifyingMetric ==
    op = "detect_cost_regression" =>
        LET v == cost_summary.app_vcore_seconds
            m == cost_summary.app_memory_gb_seconds
            av == baseline.avg_app_vcore_seconds
            am == baseline.avg_app_memory_gb_seconds
            given == baseline.present /\ cost_summary.present /\ ~cost_summary.empty
            qv == given /\ CostQualifies(v, av)
            qm == given /\ CostQualifies(m, am)
            vcore_wins == qv /\ (qm => v.val * am.val >= m.val * av.val)
            cur == IF vcore_wins THEN v.val ELSE m.val
            avg == IF vcore_wins THEN av.val ELSE am.val
        IN  /\ result.kind \in {"None", "cost_regression"}
            /\ (result.kind = "None") <=> (~qv /\ ~qm)
            /\ (qv \/ qm) =>
                  /\ result.evidence.metric =
                        (IF vcore_wins THEN "vcore_seconds" ELSE "memory_gb_seconds")
                  /\ result.evidence.current = cur
                  /\ result.evidence.baseline_average = avg
                  /\ result.severity = (IF 4 * cur < 7 * avg THEN "warning" ELSE "critical")

\* Both metrics qualify (1.4 and 1.8): memory is reported, as critical.
C2_Witness ==
    /\ op = "detect_cost_regression"
    /\ cost_summary.app_vcore_seconds = Num(140)
    /\ cost_summary.app_memory_gb_seconds = Num(180)
    /\ baseline.avg_app_vcore_seconds = Num(100)
    /\ baseline.avg_app_memory_gb_seconds = Num(100)
    /\ result.kind = "cost_regression"
    /\ result.evidence.metric = "memory_gb_seconds"
    /\ result.severity = "critical"

SkewedJobs ==
    IF spark_metrics.present /\ ~spark_metrics.empty /\ spark_metrics.jobs_is_list
    THEN {i \in 1..Len(spark_metrics.jobs) :
            /\ spark_metrics.jobs[i].isdict
            /\ Numeric(spark_metrics.jobs[i].max_over_median_ratio)
            /\ spark_metrics.jobs[i].max_over_median_ratio.val > 3}
    ELSE {}

\* C4: detect_task_straggler returns a finding exactly when some inner job has a numeric
\* max_over_median_ratio above 3.0; the finding is about the job of highest ratio (the first
\* of them on equal ratios), critical exactly when that ratio is at least 5.0 and a warning
\* otherwise; jobs whose ratio is missing or not numeric play no part.
C4_StragglerReportsMostSkewedJob ==
    op = "detect_task_straggler" =>
        /\ result.kind \in {"None", "task_straggler_detected"}
        /\ (result.kind = "task_straggler_detected") <=> (SkewedJobs # {})
        /\ SkewedJobs # {} =>
              LET jobs == spark_metrics.jobs
                  ratio(i) == jobs[i].max_over_median_ratio.val
                  top == {i \in SkewedJobs : \A j \in SkewedJobs : ratio(i) >= ratio(j)}
                  first == CHOOSE i \in top : \A j \in top : i <= j
              IN  /\ result.evidence.job_index = first
                  /\ result.evidence.ratio = ratio(first)
                  /\ result.severity = (IF ratio(first) >= 5 THEN "critical" ELSE "warning")

\* Two skewed jobs of equal ratio after one without a usable ratio: the first of the two.
C4_Witness ==
    /\ op = "detect_task_straggler"
    /\ Cardinality(SkewedJobs) >= 2
    /\ \A i \in SkewedJobs : \A j \in SkewedJobs :
          spark_metrics.jobs[i].max_over_median_ratio.val
              = spark_metrics.jobs[j].max_over_median_ratio.val
    /\ result.kind = "task_straggler_detected"
    /\ result.evidence.job_index = 1

BaselineKinds == {"job_runtime_regression", "cost_regression"}

\* C5: without a baseline the payload of synthesize_anomaly_flags holds neither a
\* runtime-regression nor a cost-regression finding, whatever the run, the cost summary
\* and the nested metrics are.
C5_NoBaselineNoBaselineFinding ==
    (op = "synthesize_anomaly_flags" /\ ~baseline.present /\ ~result.raised) =>
        \A i \in 1..Len(result.findings) : result.findings[i].kind \notin BaselineKinds

\* A cold-start run that took 200 s and used 1.4x / 1.8x of what a baseline of 100 would
\* allow, synthesized without a baseline, with a finding of another detector.
C5_Witness ==
    /\ op = "synthesize_anomaly_flags"
    /\ ~baseline.present
    /\ fact.duration_seconds = Num(2000)
    /\ cost_summary.app_vcore_seconds = Num(140)
    /\ cost_summary.app_memory_gb_seconds = Num(180)
    /\ ~result.raised
    /\ Len(result.findings) >= 1

\* C6: has_issues of a payload is true exactly when one of its findings has severity
\* warning or critical.
C6_HasIssuesIffWarningOrCritical ==
    (op = "synthesize_anomaly_flags" /\ ~result.raised) =>
        (result.has_issues
            <=> \E i \in 1..Len(result.findings) :
                   \/ result.findings[i].severity = "warning"
                   \/ result.findings[i].severity = "critical")

\* A payload whose only finding is the info-severity underutilized one: no issues.
C6_Witness ==
    /\ op = "synthesize_anomaly_flags"
    /\ ~result.raised
    /\ Len(result.findings) = 1
    /\ result.findings[1].kind = "cluster_underutilized"
    /\ result.findings[1].severity = "info"
    /\ ~result.has_issues

----------------------------------------------------------------------------
(* build_status_report *)

HighlightCount == 5

\* Mutant: info ranks before warning.
SeverityRank_InfoBeforeWarning(severity) ==
    CASE severity = "critical" -> 0
      [] severity = "info" -> 1
      [] severity = "warning" -> 2
      [] OTHER -> 3

\* severity_rank.get(severity, severity_rank["default"])
SeverityRank(severity) ==
    CASE severity = "critical" -> 0
      [] severity = "warning" -> 1
      [] severity = "info" -> 2
      [] OTHER -> 3

\* fact.anomaly_flags.get("job_family") or fact.job_id
FamilyOf(f) == StrOr(f.anomaly_flags.job_family, f.job_id)

\* fact.anomaly_flags.get("run_identifier") or fact.job_id
RunIdentifierOf(f) == StrOr(f.anomaly_flags.run_identifier, f.job_id)

\* The position of job_family among the keys of grouped, 0 when it is not a key.
GroupedIndex(grouped, family) ==
    IF \E g \in 1..Len(grouped) : grouped[g].family = family
    THEN CHOOSE g \in 1..Len(grouped) : grouped[g].family = family
    ELSE 0

\* Mutant: a finding of equal rank replaces the kept one (`rank <= current["rank"]`).
GroupedPut_ReplaceOnEqualRank(grouped, family, rank, finding, fact_index) ==
    LET g == GroupedIndex(grouped, family)
        entry == [family |-> family, rank |-> rank, severity |-> finding.severity,
                  finding |-> finding, fact |-> fact_index]
    IN  IF g = 0 THEN Append(grouped, entry)
        ELSE IF rank <= grouped[g].rank THEN [grouped EXCEPT ![g] = entry]
        ELSE grouped

\* Mutant: a better finding is stored by deleting the family's entry and adding a new one,
\* which moves the family to the end of the dict.
GroupedPut_ReinsertOnReplace(grouped, family, rank, finding, fact_index) ==
    LET g == GroupedIndex(grouped, family)
        entry == [family |-> family, rank |-> rank, severity |-> finding.severity,
                  finding |-> finding, fact |-> fact_index]
    IN  IF g = 0 THEN Append(grouped, entry)
        ELSE IF rank < grouped[g].rank
             THEN Append(SelectSeq(grouped, LAMBDA e : e.family # family), entry)
        ELSE grouped

\* grouped[job_family] = {...} when the family is new or the rank is better: a dict keeps
\* the position of a key that is assigned again.
GroupedPut(grouped, family, rank, finding, fact_index) ==
    LET g == GroupedIndex(grouped, family)
        entry == [family |-> family, rank |-> rank, severity |-> finding.severity,
                  finding |-> finding, fact |-> fact_index]
    IN  IF g = 0 THEN Append(grouped, entry)
        ELSE IF rank < grouped[g].rank THEN [grouped EXCEPT ![g] = entry]
        ELSE grouped

\* The loop over the findings of one fact, from finding k on.
RECURSIVE GroupFindings(_, _, _, _)
GroupFindings(grouped, batch, i, k) ==
    LET findings == batch[i].anomaly_flags.findings
    IN  IF k > Len(findings) THEN grouped
        ELSE GroupFindings(
                 GroupedPut(grouped, FamilyOf(batch[i]),
                            SeverityRank(findings[k].severity), findings[k], i),
                 batch, i, k + 1)

\* The loop over the facts that have issues, from fact i on.
RECURSIVE GroupFacts(_, _, _)
GroupFacts(grouped, batch, i) ==
    IF i > Len(batch) THEN grouped
    ELSE IF ~batch[i].anomaly_flags.has_issues
         THEN GroupFacts(grouped, batch, i + 1)
    ELSE GroupFacts(GroupFindings(grouped, batch, i, 1), batch, i + 1)

\* sorted(grouped.items(), key=rank): stable, so equal ranks keep the dict's order.
SortedByRank(grouped) ==
    SelectSeq(grouped, LAMBDA e : e.rank = 0)
    \o SelectSeq(grouped, LAMBDA e : e.rank = 1)
    \o SelectSeq(grouped, LAMBDA e : e.rank = 2)
    \o SelectSeq(grouped, LAMBDA e : e.rank = 3)

\* One regression line per entry of the sorted grouping.
RegressionLines(batch, sorted) ==
    [g \in 1..Len(sorted) |->
        LET f == batch[sorted[g].fact]
            ref == f.anomaly_flags.baseline_reference
        IN  [family |-> sorted[g].family,
             run_identifier |-> RunIdentifierOf(f),
             cluster_name |-> f.cluster_name,
             message |-> sorted[g].finding.message,
             baseline_snippet |-> Truthy(ref.p50_duration) /\ ref.run_count # 0]]

\* The first loop that fills raw_actions: the action of each family's finding, or the
\* first recommendation of its fact when the finding has none.
RECURSIVE FamilyActions(_, _, _)
FamilyActions(batch, sorted, g) ==
    IF g > Len(sorted) THEN <<>>
    ELSE LET f == batch[sorted[g].fact]
             own == sorted[g].finding.action
             action_text == IF own = NoneStr /\ f.anomaly_flags.recommendations # <<>>
                            THEN f.anomaly_flags.recommendations[1]
                            ELSE own
         IN  (IF action_text # NoneStr THEN <<<<sorted[g].family, action_text>>>> ELSE <<>>)
             \o FamilyActions(batch, sorted, g + 1)

\* The second loop: every recommendation of every fact that has issues.
RECURSIVE RecommendationActions(_, _)
RecommendationActions(batch, i) ==
    IF i > Len(batch) THEN <<>>
    ELSE (IF batch[i].anomaly_flags.has_issues
          THEN [r \in 1..Len(batch[i].anomaly_flags.recommendations) |->
                   <<FamilyOf(batch[i]), batch[i].anomaly_flags.recommendations[r]>>]
          ELSE <<>>)
         \o RecommendationActions(batch, i + 1)

\* Mutant: the `seen` check is skipped, every raw action becomes a line.
Deduplicate_KeepAll(raw_actions, n) == SubSeq(raw_actions, 1, n)

\* The `seen` loop: each family::action key once, at its first position.
RECURSIVE Deduplicate(_, _)
Deduplicate(raw_actions, n) ==
    IF n = 0 THEN <<>>
    ELSE LET before == Deduplicate(raw_actions, n - 1)
         IN  IF \E j \in 1..(n - 1) : raw_actions[j] = raw_actions[n]
             THEN before
             ELSE Append(before, raw_actions[n])

NoReport == [rendered |-> FALSE]

\* The early return on an empty batch: the sentinel line and nothing else.
EmptyReport ==
    [rendered |-> TRUE, no_activity |-> TRUE, summary_header |-> FALSE, jobs_ingested |-> 0,
     regressions_header |-> FALSE, regression_count |-> 0, regressions |-> <<>>,
     no_regressions_line |-> FALSE, actions_header |-> FALSE, actions |-> <<>>,
     monitor_line |-> FALSE, highlights_header |-> FALSE, highlights |-> <<>>]

\* The body after the early return: summary, regressions, actions, highlights.
RenderReport(batch) ==
    LET anomalies == \E i \in 1..Len(batch) : batch[i].anomaly_flags.has_issues
        grouped == GroupFacts(<<>>, batch, 1)
        sorted == SortedByRank(grouped)
        raw_actions == FamilyActions(batch, sorted, 1)
                       \o RecommendationActions(batch, 1)
    IN  [rendered |-> TRUE,
         no_activity |-> FALSE,
         summary_header |-> TRUE,
         jobs_ingested |-> Len(batch),
         regressions_header |-> anomalies,
         regression_count |-> IF anomalies THEN Len(grouped) ELSE 0,
         regressions |-> IF anomalies THEN RegressionLines(batch, sorted) ELSE <<>>,
         no_regressions_line |-> ~anomalies,
         actions_header |-> anomalies,
         actions |-> IF anomalies THEN Deduplicate(raw_actions, Len(raw_actions))
                     ELSE <<>>,
         monitor_line |-> anomalies /\ raw_actions = <<>>,
         highlights_header |-> TRUE,
         highlights |-> [i \in 1..(IF Len(batch) < HighlightCount THEN Len(batch)
                                   ELSE HighlightCount) |->
                            [run_identifier |-> RunIdentifierOf(batch[i]),
                             job_state |-> batch[i].job_state,
                             duration_seconds |-> batch[i].duration_seconds]]]

\* Mutant: no early return, an empty batch is rendered like any other.
build_status_report_NoShortCircuit(batch) == RenderReport(batch)

\* Mutant: the suggested-actions block is appended whether or not a fact has issues.
build_status_report_ActionsAlways(batch) ==
    IF batch = <<>> THEN EmptyReport
    ELSE LET r == RenderReport(batch)
         IN  [r EXCEPT !.actions_header = TRUE,
                       !.monitor_line = (r.actions = <<>>)]

build_status_report(batch) ==
    IF batch = <<>> THEN EmptyReport ELSE RenderReport(batch)

----------------------------------------------------------------------------
(* Facts handed to build_status_report *)

MaxFacts == 3      \* facts per batch
MaxFindings == 2   \* findings per anomaly payload

\* A finding as the report reads it: severity, message and action ("None" for no action).
\* The message names the run, as the detectors' messages do.
Finding(severity, text, action, job_id) ==
    [severity |-> severity, message |-> <<text, job_id>>, action |-> action]

\* The kinds of finding a payload may hold, in the order in which a payload holds them.
FindingKinds ==
    << [severity |-> "warning", text |-> "cost", action |-> "review-sizing"],
       [severity |-> "critical", text |-> "runtime", action |-> "review-changes"],
       [severity |-> "notice", text |-> "custom", action |-> NoneStr],
       [severity |-> "warning", text |-> "saturated", action |-> NoneStr],
       [severity |-> "info", text |-> "underutilized", action |-> "right-size"] >>

\* The members of a set of positions of FindingKinds, in increasing order.
RECURSIVE KindsAt(_)
KindsAt(S) ==
    IF S = {} THEN <<>>
    ELSE LET k == CHOOSE x \in S : \A y \in S : x <= y
         IN  <<FindingKinds[k]>> \o KindsAt(S \ {k})

\* The findings lists: up to MaxFindings kinds, each at most once.
FindingLists ==
    {KindsAt(S) : S \in {T \in SUBSET (1..Len(FindingKinds)) : Cardinality(T) <= MaxFindings}}

\* [finding.action for finding in findings if finding.action]
RECURSIVE ActionsOf(_)
ActionsOf(findings) ==
    IF findings = <<>> THEN <<>>
    ELSE (IF Head(findings).action # NoneStr THEN <<Head(findings).action>> ELSE <<>>)
         \o ActionsOf(Tail(findings))

ReportFact(job_id, family, has_issues, kinds) ==
    LET findings == [k \in 1..Len(kinds) |->
                        Finding(kinds[k].severity, kinds[k].text, kinds[k].action, job_id)]
    IN  [job_id |-> job_id,
         cluster_name |-> "cluster-a",
         job_state |-> "SUCCEEDED",
         duration_seconds |-> Num(1000),
         anomaly_flags |->
             [findings |-> findings,
              job_family |-> family,
              run_identifier |-> NoneStr,
              recommendations |-> ActionsOf(findings),
              baseline_reference |-> IF family = NoneStr THEN NoBaseline
                                     ELSE BaselineStats(Num(1000), Num(1800), None, None, 4),
              has_issues |-> has_issues]]

\* Runs etl_a1 and etl_b2 of the logical job etl, and a run agg_c3 without a family.
ReportIdentities == {<<"etl_a1", "etl">>, <<"etl_b2", "etl">>, <<"agg_c3", NoneStr>>}

FactValues ==
    {ReportFact(id[1], id[2], TRUE, kinds) :
        id \in ReportIdentities, kinds \in FindingLists}
    \cup
    {ReportFact(id[1], id[2], FALSE, kinds) :
        id \in ReportIdentities,
        kinds \in {<<>>, <<FindingKinds[2]>>, <<FindingKinds[5]>>}}

----------------------------------------------------------------------------
(* The report rendered for a batch, and for the batch with one more fact *)

DetectorsIdle ==
    /\ fact = Fact(None)
    /\ baseline = NoBaseline
    /\ spark_metrics = NoSparkMetrics
    /\ cost_summary = NoCostSummary
    /\ cluster_profile = NoClusterProfile
    /\ job_family = NoneStr
    /\ run_identifier = NoneStr
    /\ op = "none"
    /\ result = NoResult

ReportInit ==
    /\ ConfigIdle
    /\ DetectorsIdle
    /\ PipelineIdle
    /\ facts = <<>>
    /\ report = NoReport

BuildStatusReport ==
    /\ \E batch \in (IF report.rendered THEN {} ELSE {facts})
                     \cup (IF Len(facts) < MaxFacts
                           THEN {Append(facts, f) : f \in FactValues} ELSE {}) :
          /\ facts' = batch
          /\ report' = build_status_report(batch)
    /\ UNCHANGED detect_vars
    /\ UNCHANGED pipeline_vars
    /\ UNCHANGED config_vars

ReportNext == BuildStatusReport

ReportSpec == ReportInit /\ [][ReportNext]_vars

----------------------------------------------------------------------------
(* Properties of build_status_report (specification ReportSpec) *)

\* The findings the grouping looks at: <<i, k>> for finding k of fact i, over the facts
\* that have issues.
IssueFindings == {ik \in (1..Len(facts)) \X (1..MaxFindings + 1) :
                    /\ facts[ik[1]].anomaly_flags.has_issues
                    /\ ik[2] <= Len(facts[ik[1]].anomaly_flags.findings)}

FindingAt(ik) == facts[ik[1]].anomaly_flags.findings[ik[2]]

\* critical 0 < warning 1 < info 2 < anything else 3
RankAt(ik) ==
    IF FindingAt(ik).severity = "critical" THEN 0
    ELSE IF FindingAt(ik).severity = "warning" THEN 1
    ELSE IF FindingAt(ik).severity = "info" THEN 2
    ELSE 3

FamilyAt(i) ==
    IF facts[i].anomaly_flags.job_family # NoneStr THEN facts[i].anomaly_flags.job_family
    ELSE facts[i].job_id

RunIdAt(i) ==
    IF facts[i].anomaly_flags.run_identifier # NoneStr
    THEN facts[i].anomaly_flags.run_identifier
    ELSE facts[i].job_id

FamiliesWithFindings == {FamilyAt(ik[1]) : ik \in IssueFindings}

Earlier(ik, jl) == ik[1] < jl[1] \/ (ik[1] = jl[1] /\ ik[2] <= jl[2])

\* The finding of best rank of a family, the first encountered among those of that rank.
BestOf(family) ==
    LET mine == {ik \in IssueFindings : FamilyAt(ik[1]) = family}
        best == {ik \in mine : \A jl \in mine : RankAt(ik) <= RankAt(jl)}
    IN  CHOOSE ik \in best : \A jl \in best : Earlier(ik, jl)

\* The first fact of a family that the grouping looks at.
FirstSeen(family) ==
    LET mine == {ik[1] : ik \in {jl \in IssueFindings : FamilyAt(jl[1]) = family}}
    IN  CHOOSE i \in mine : \A j \in mine : i <= j

\* C7: the report has exactly one regression line per job family (job_family, else job id)
\* with a finding among the facts that have issues, and the line shows the finding of
\* lowest severity rank (critical 0 < warning 1 < info 2 < unranked 3) of the family, the
\* first encountered in fact order, then finding order, among those of that rank.
C7_OneLinePerFamilyShowingBestFinding ==
    report.rendered =>
        /\ \A family \in FamiliesWithFindings :
              Cardinality({g \in 1..Len(report.regressions) :
                             report.regressions[g].family = family}) = 1
        /\ \A g \in 1..Len(report.regressions) :
              /\ report.regressions[g].family \in FamiliesWithFindings
              /\ report.regressions[g].message
                    = FindingAt(BestOf(report.regressions[g].family)).message

\* Two runs of the family etl, the first with a warning and the second with a critical
\* finding: the only line of the family shows the critical one.
C7_Witness ==
    /\ report.rendered
    /\ Len(facts) = 2
    /\ FamilyAt(1) = "etl" /\ FamilyAt(2) = "etl"
    /\ facts[1].job_id # facts[2].job_id
    /\ <<1, 1>> \in IssueFindings /\ RankAt(<<1, 1>>) = 1
    /\ <<2, 1>> \in IssueFindings /\ RankAt(<<2, 1>>) = 0
    /\ Len(report.regressions) = 1
    /\ report.regressions[1].message = FindingAt(<<2, 1>>).message

\* The facts of a family that have issues.
IssueFactsOf(family) ==
    {i \in 1..Len(facts) : facts[i].anomaly_flags.has_issues /\ FamilyAt(i) = family}

\* C8 as stated: the suggested-actions block has at most one action line per job family,
\* no two action lines are identical, and a family whose chosen finding has no action text
\* has no line.
C8_AtMostOneActionLinePerFamily ==
    report.rendered =>
        /\ \A a \in 1..Len(report.actions) : \A b \in 1..Len(report.actions) :
              a # b => report.actions[a][1] # report.actions[b][1]
        /\ \A a \in 1..Len(report.actions) : \A b \in 1..Len(report.actions) :
              a # b => report.actions[a] # report.actions[b]
        /\ \A family \in FamiliesWithFindings :
              FindingAt(BestOf(family)).action = NoneStr
                 => \A a \in 1..Len(report.actions) : report.actions[a][1] # family

\* The action texts a family is given lines for: the action of its chosen finding and the
\* recommendations of its facts that have issues.
ActionTextsOf(family) ==
    (IF family \in FamiliesWithFindings /\ FindingAt(BestOf(family)).action # NoneStr
        THEN {FindingAt(BestOf(family)).action} ELSE {})
    \cup
    UNION {{facts[i].anomaly_flags.recommendations[r] :
               r \in 1..Len(facts[i].anomaly_flags.recommendations)} :
           i \in IssueFactsOf(family)}

\* C8 amended: no two action lines are identical, and a family has one action line for
\* each distinct action text among the action of its chosen finding and the
\* recommendations of its facts that have issues (several lines when these differ); it has
\* no line exactly when its chosen finding has no action text and those facts carry no
\* recommendation.
C8_OneActionLinePerFamilyAndText ==
    report.rendered =>
        /\ \A a \in 1..Len(report.actions) : \A b \in 1..Len(report.actions) :
              a # b => report.actions[a] # report.actions[b]
        /\ {report.actions[a] : a \in 1..Len(report.actions)}
              = UNION {{<<FamilyAt(i), text>> : text \in ActionTextsOf(FamilyAt(i))} :
                       i \in 1..Len(facts)}

\* One run with a warning and a critical finding that carry different actions: its
\* family has two action lines.
C8_Witness ==
    /\ report.rendered
    /\ Len(facts) = 1
    /\ Len(report.actions) = 2
    /\ report.actions[1][1] = report.actions[2][1]
    /\ report.actions[1][2] # report.actions[2][2]

\* The first fact of a family in the batch, which the caller orders latest run first.
LatestRunOf(family) ==
    CHOOSE i \in 1..Len(facts) :
        /\ FamilyAt(i) = family
        /\ \A j \in 1..Len(facts) : FamilyAt(j) = family => i <= j

\* C9: the run id of a regression line is the id of the family's latest run, the first
\* fact of the family in the batch, also when the chosen finding comes from an older run.
C9_RunIdIsLatestRunOfFamily ==
    report.rendered =>
        \A g \in 1..Len(report.regressions) :
            report.regressions[g].run_identifier
                = RunIdAt(LatestRunOf(report.regressions[g].family))

\* C10: the regression lines are in non-decreasing severity rank, and families of equal
\* rank are in the order in which the grouping first met them, also when the finding a
\* family is listed with was replaced by a better one of a later fact.
C10_LinesOrderedByRankThenDiscovery ==
    report.rendered =>
        \A g \in 1..Len(report.regressions) : \A h \in 1..Len(report.regressions) :
            g < h =>
                LET fg == report.regressions[g].family
                    fh == report.regressions[h].family
                IN  /\ fg \in FamiliesWithFindings /\ fh \in FamiliesWithFindings
                    /\ \/ RankAt(BestOf(fg)) < RankAt(BestOf(fh))
                       \/ /\ RankAt(BestOf(fg)) = RankAt(BestOf(fh))
                          /\ FirstSeen(fg) < FirstSeen(fh)

\* Family etl is met first with a warning, family agg_c3 second with a critical finding,
\* and a later run of etl brings a critical one: etl is still listed first.
C10_Witness ==
    /\ report.rendered
    /\ Len(facts) = 3
    /\ Len(report.regressions) = 2
    /\ LET fg == report.regressions[1].family
           fh == report.regressions[2].family
       IN  /\ fg \in FamiliesWithFindings /\ fh \in FamiliesWithFindings
           /\ RankAt(BestOf(fg)) = RankAt(BestOf(fh))
           /\ FirstSeen(fg) < FirstSeen(fh)
           /\ BestOf(fg)[1] > FirstSeen(fh)

\* C11: on an empty batch build_status_report returns the "No Dataproc activity detected"
\* line and nothing else: no summary header, no regressions, no actions, no highlights;
\* and that line appears for no other batch.
C11_EmptyBatchIsTheSentinelOnly ==
    report.rendered =>
        /\ (facts = <<>>) <=> report.no_activity
        /\ facts = <<>> =>
              /\ ~report.summary_header /\ report.jobs_ingested = 0
              /\ ~report.regressions_header /\ report.regressions = <<>>
              /\ ~report.no_regressions_line
              /\ ~report.actions_header /\ report.actions = <<>> /\ ~report.monitor_line
              /\ ~report.highlights_header /\ report.highlights = <<>>

\* The report of the empty batch.
C11_Witness ==
    /\ report.rendered
    /\ facts = <<>>
    /\ report.no_activity

\* C12: for a non-empty batch without a has_issues fact the report has the "No runtime
\* regressions detected" line, no regression line and no suggested-actions block (neither
\* its header nor an action line nor the monitor line); for every non-empty batch exactly
\* one of the regressions header and the no-regressions line appears.
C12_NoIssuesNoRegressionsNoActions ==
    (report.rendered /\ facts # <<>>) =>
        /\ report.regressions_header # report.no_regressions_line
        /\ (\A i \in 1..Len(facts) : ~facts[i].anomaly_flags.has_issues) =>
              /\ report.no_regressions_line
              /\ report.regressions = <<>>
              /\ ~report.actions_header
              /\ report.actions = <<>>
              /\ ~report.monitor_line

\* A batch whose only findings are informational and carry a recommendation: no fact has
\* issues, so the recommendation is not printed.
C12_Witness ==
    /\ report.rendered
    /\ Len(facts) = 2
    /\ \A i \in 1..Len(facts) :
          /\ ~facts[i].anomaly_flags.has_issues
          /\ Len(facts[i].anomaly_flags.findings) = 1
          /\ facts[i].anomaly_flags.findings[1].severity = "info"
          /\ facts[i].anomaly_flags.recommendations # <<>>
    /\ report.no_regressions_line

----------------------------------------------------------------------------
(* SparkRunState (repositories/run_state_repository.py) *)

\* Timestamps are ISO strings or None.  NoTime is None, EmptyTime is "", BadTime is a
\* string datetime.fromisoformat rejects, and Iso(wall, aware, offset) is a string it
\* parses: wall is the wall-clock reading and offset the UTC offset of an aware string,
\* both in tenths of a second.
NoTime == [tag |-> "none", wall |-> 0, aware |-> FALSE, offset |-> 0]
EmptyTime == [tag |-> "empty", wall |-> 0, aware |-> FALSE, offset |-> 0]
BadTime == [tag |-> "bad", wall |-> 0, aware |-> FALSE, offset |-> 0]
Iso(wall, aware, offset) == [tag |-> "iso", wall |-> wall, aware |-> aware, offset |-> offset]

\* `not self.application_start_time`
TimeMissing(t) == t.tag \in {"none", "empty"}

\* The instant of a parsed timestamp on the UTC time line: a naive one gets
\* tzinfo=timezone.utc, an aware one is its wall clock minus its offset.
UtcInstant(t) == IF t.aware THEN t.wall - t.offset ELSE t.wall

SparkRunState(start, end, status, dataproc_jobid, spark_jobid, application_id, spark_taskid, app, metrics) ==
    [present |-> TRUE,
     application_start_time |-> start,
     application_end_time |-> end,
     status |-> status,
     dataproc_jobid |-> dataproc_jobid,
     spark_jobid |-> spark_jobid,
     application_id |-> application_id,
     spark_taskid |-> spark_taskid,
     app |-> app,                    \* spark_event_metrics["app"]
     spark_event_metrics |-> metrics \* the jobs and stages of spark_event_metrics
    ]

\* Mutant: the difference is returned as it is, without max(..., 0.0).
duration_seconds_Unclamped(rs) ==
    IF TimeMissing(rs.application_start_time) \/ TimeMissing(rs.application_end_time)
    THEN None
    ELSE IF rs.application_start_time.tag = "bad" \/ rs.application_end_time.tag = "bad"
    THEN None
    ELSE Num(UtcInstant(rs.application_end_time) - UtcInstant(rs.application_start_time))

\* Mutant: the tzinfo of a naive timestamp is left unset and the offset of an aware one
\* is ignored, so wall clocks are subtracted.
duration_seconds_WallClock(rs) ==
    IF TimeMissing(rs.application_start_time) \/ TimeMissing(rs.application_end_time)
    THEN None
    ELSE IF rs.application_start_time.tag = "bad" \/ rs.application_end_time.tag = "bad"
    THEN None
    ELSE LET delta == rs.application_end_time.wall - rs.application_start_time.wall
         IN  Num(IF delta > 0 THEN delta ELSE 0)

\* SparkRunState.duration_seconds
duration_seconds(rs) ==
    IF TimeMissing(rs.application_start_time) \/ TimeMissing(rs.application_end_time)
    THEN None
    ELSE IF rs.application_start_time.tag = "bad" \/ rs.application_end_time.tag = "bad"
    THEN None                                            \* ValueError
    ELSE LET delta == UtcInstant(rs.application_end_time)
                      - UtcInstant(rs.application_start_time)
         IN  Num(IF delta > 0 THEN delta ELSE 0)

\* SparkRunState.primary_job_id: the first truthy of the three ids, else "".
primary_job_id(rs) ==
    IF rs.spark_jobid # NoneStr /\ rs.spark_jobid # "" THEN rs.spark_jobid
    ELSE IF rs.application_id # NoneStr /\ rs.application_id # "" THEN rs.application_id
    ELSE IF rs.spark_taskid # NoneStr /\ rs.spark_taskid # "" THEN rs.spark_taskid
    ELSE ""

\* SparkRunState.cluster_name: (self.dataproc_jobid or "").strip(); the ids of the model
\* carry no surrounding blanks.
cluster_name(rs) == IF rs.dataproc_jobid = NoneStr THEN "" ELSE rs.dataproc_jobid

\* SparkRunState.cost_summary: always a mapping with the three keys.
RunCostSummary(rs) ==
    CostSummary(rs.app.app_vcore_seconds, rs.app.app_memory_gb_seconds,
                rs.app.executor_peak)

----------------------------------------------------------------------------
(* Reading the duration of a run (specification RunStateSpec) *)

Hour == 60 * 60 * 10   \* one hour in tenths of a second

WallValues == {0, 600, Hour, Hour + 600}
OffsetValues == {0, Hour, -Hour}
TimeValues ==
    {NoTime, EmptyTime, BadTime}
    \cup {Iso(w, FALSE, 0) : w \in WallValues}
    \cup {Iso(w, TRUE, o) : w \in WallValues, o \in OffsetValues}

NoApp == [app_vcore_seconds |-> None, app_memory_gb_seconds |-> None, executor_peak |-> None]

RunStateInit ==
    /\ ConfigIdle
    /\ DetectorsIdle
    /\ facts = <<>>
    /\ report = NoReport
    /\ \E start \in TimeValues, end \in TimeValues :
          run_state = SparkRunState(start, end, "SUCCEEDED", "cluster-a", "etl_a1b2c3",
                                    NoneStr, NoneStr, NoApp, EmptySparkMetrics)
    /\ fact_table = <<>>
    /\ as_of = 0
    /\ dry_run = FALSE
    /\ session = EmptySession
    /\ response = NoResponse
    /\ baselines = <<>>
    /\ built = <<>>

DurationSeconds ==
    /\ response.call = "none"
    /\ response' = [call |-> "duration_seconds", value |-> duration_seconds(run_state)]
    /\ UNCHANGED <<config_vars, detect_vars, report_vars, run_state, fact_table, as_of, dry_run,
                   session, baselines, built>>

RunStateNext == DurationSeconds

RunStateSpec == RunStateInit /\ [][RunStateNext]_vars

\* C18: duration_seconds is None when the start or the end timestamp is missing or does
\* not parse; otherwise it is the time from start to end on the UTC time line, a timestamp
\* without a timezone being read as UTC, and 0 when the end precedes the start; it is
\* never negative.
C18_DurationIsClampedUtcDifference ==
    response.call = "duration_seconds" =>
        LET start == run_state.application_start_time
            end == run_state.application_end_time
            usable(t) == t.tag = "iso"
            utc(t) == IF t.aware THEN t.wall - t.offset ELSE t.wall
        IN  /\ ~(usable(start) /\ usable(end)) => response.value = None
            /\ (usable(start) /\ usable(end)) =>
                  /\ response.value.tag = "num"
                  /\ response.value.val >= 0
                  /\ utc(end) >= utc(start) => response.value.val = utc(end) - utc(start)
                  /\ utc(end) < utc(start) => response.value.val = 0

\* A naive start and an aware end whose wall clock is later but whose instant is earlier:
\* the duration is clamped to 0.
C18_Witness ==
    /\ response.call = "duration_seconds"
    /\ run_state.application_start_time.tag = "iso"
    /\ ~run_state.application_start_time.aware
    /\ run_state.application_end_time.tag = "iso"
    /\ run_state.application_end_time.aware
    /\ run_state.application_end_time.wall > run_state.application_start_time.wall
    /\ response.value = Num(0)

----------------------------------------------------------------------------
(* load_baselines (analytics/performance_memory.py) *)

BaselineDays == 7      \* MonitoringConfig.baseline_days

\* REGEXP_REPLACE(job_id, r'_[0-9a-f]{6,}$', '') on the job ids of the model: two runs of
\* the logical job etl, the bare id etl, an id whose hex suffix is too short, an id that
\* is nothing but a suffix, and the empty id.
RegexpReplaceHexSuffix(job_id) ==
    CASE job_id = "etl_a1b2c3" -> "etl"
      [] job_id = "etl_0d9e8f7a6b" -> "etl"
      [] job_id = "_a1b2c3" -> ""
      [] OTHER -> job_id

\* The CASE expression of the history CTE: the stripped id unless that is empty.
LogicalJobId(job_id) ==
    IF RegexpReplaceHexSuffix(job_id) # "" THEN RegexpReplaceHexSuffix(job_id) ELSE job_id

\* A row of the performance table, with the columns load_baselines reads.  job_metrics
\* holds the "app" mapping of the run.
FactRow(job_id, duration, ingest_timestamp, app) ==
    [job_id |-> job_id, duration_seconds |-> duration,
     ingest_timestamp |-> ingest_timestamp, app |-> app]

\* SAFE_CAST(JSON_VALUE(...) AS FLOAT64): NULL for what is not a number in range.
SafeCastFloat(value) ==
    IF value.tag = "num" THEN value
    ELSE IF value.tag = "numtext" THEN Num(value.val)
    ELSE None

\* Mutant: rows without a duration are counted as well.
RawHistory_AnyDuration(rows, now, window) ==
    {i \in 1..Len(rows) :
        /\ rows[i].ingest_timestamp >= now - window
        /\ rows[i].ingest_timestamp <= now}

\* The raw_history CTE: the rows ingested within [as_of - trailing_window, as_of] that
\* have a duration.
RawHistory(rows, now, window) ==
    {i \in 1..Len(rows) :
        /\ rows[i].ingest_timestamp >= now - window
        /\ rows[i].ingest_timestamp <= now
        /\ ~IsNone(rows[i].duration_seconds)}

\* The sum of f[i] over the members i of S.
RECURSIVE SumOver(_, _)
SumOver(S, f) ==
    IF S = {} THEN 0
    ELSE LET i == CHOOSE x \in S : TRUE
         IN  f[i] + SumOver(S \ {i}, f)

\* AVG(column): NULL without a non-null value.  The values of the model are multiples of
\* 60 in groups of at most six rows, so the quotient is exact.
Avg(S, value) ==
    LET known == {i \in S : ~IsNone(value[i])}
    IN  IF known = {} THEN None
        ELSE Num(SumOver(known, [i \in known |-> value[i].val]) \div Cardinality(known))

\* The k-th smallest duration of a group of rows.
KthSmallest(rows, group, k) ==
    LET d(i) == rows[i].duration_seconds.val
    IN  CHOOSE v \in {d(i) : i \in group} :
            /\ Cardinality({i \in group : d(i) < v}) < k
            /\ Cardinality({i \in group : d(i) <= v}) >= k

\* APPROX_QUANTILES(duration_seconds, 20)[OFFSET(10)]: the median; for an even count
\* either middle value, as `upper` says.
MedianDuration(rows, group, upper) ==
    LET n == Cardinality(group)
    IN  KthSmallest(rows, group, IF upper THEN (n \div 2) + 1 ELSE (n + 1) \div 2)

\* The aggregate of one group of the final SELECT.  The 18th of 20 quantiles of at most
\* six values is the largest.
GroupStats(rows, group, upper) ==
    LET vcores == [i \in group |-> SafeCastFloat(rows[i].app.app_vcore_seconds)]
        memory == [i \in group |-> SafeCastFloat(rows[i].app.app_memory_gb_seconds)]
    IN  BaselineStats(Num(MedianDuration(rows, group, upper)),
                      Num(KthSmallest(rows, group, Cardinality(group))),
                      Avg(group, vcores),
                      Avg(group, memory),
                      Cardinality(group))

\* load_baselines: the dict from logical job id to BaselineStats.
load_baselines(rows, now, window, upper) ==
    LET history == RawHistory(rows, now, window)
        keys == {LogicalJobId(rows[i].job_id) : i \in history}
    IN  [k \in keys |->
            GroupStats(rows, {i \in history : LogicalJobId(rows[i].job_id) = k}, upper)]

\* baselines.get(job_id)
BaselineGet(map, job_id) == IF job_id \in DOMAIN map THEN map[job_id] ELSE NoBaseline

----------------------------------------------------------------------------
(* Loading baselines from a history (specification BaselineSpec) *)

MaxHistory == 2        \* rows of the performance table before the first cycle

JobIdNames == {"etl_a1b2c3", "etl_0d9e8f7a6b", "etl", "agg_a1b2", "_a1b2c3"}

AppOf(vcores, memory, peak) ==
    [app_vcore_seconds |-> vcores, app_memory_gb_seconds |-> memory, executor_peak |-> peak]

\* Rows ingested before the window, on its first day, yesterday, today and (by a writer
\* whose clock runs ahead) tomorrow.
HistoryTimes == {-(BaselineDays + 1), -BaselineDays, -1, 0, 1}

HistoryRows ==
    {FactRow(id, d, t, AppOf(Num(600), None, None)) :
        id \in JobIdNames, d \in {None, Num(1000)}, t \in HistoryTimes}

BaselineInit ==
    /\ ConfigIdle
    /\ DetectorsIdle
    /\ facts = <<>>
    /\ report = NoReport
    /\ run_state = NoRunState
    /\ fact_table \in SeqsUpTo(HistoryRows, MaxHistory)
    /\ as_of = 0
    /\ dry_run = FALSE
    /\ session = EmptySession
    /\ response = NoResponse
    /\ baselines = <<>>
    /\ built = <<>>

LoadBaselines ==
    /\ response.call = "none"
    /\ \E upper \in BOOLEAN :
          baselines' = load_baselines(fact_table, as_of, BaselineDays, upper)
    /\ response' = [call |-> "load_baselines"]
    /\ UNCHANGED <<config_vars, detect_vars, report_vars, run_state, fact_table, as_of, dry_run,
                   session, built>>

BaselineNext == LoadBaselines

BaselineSpec == BaselineInit /\ [][BaselineNext]_vars

\* The rows the claim counts for a logical id: those with a duration, ingested within
\* the window, whose job id is that logical id once stripped.
RowsCounted(logical(_), key) ==
    {i \in 1..Len(fact_table) :
        /\ logical(fact_table[i].job_id) = key
        /\ ~IsNone(fact_table[i].duration_seconds)
        /\ fact_table[i].ingest_timestamp >= as_of - BaselineDays
        /\ fact_table[i].ingest_timestamp <= as_of}

LogicalIdsOfTable(logical(_)) ==
    {logical(fact_table[i].job_id) : i \in 1..Len(fact_table)}

BaselineEntriesMatch(logical(_)) ==
    response.call = "load_baselines" =>
        /\ \A key \in LogicalIdsOfTable(logical) \cup DOMAIN baselines :
              (key \in DOMAIN baselines) <=> (RowsCounted(logical, key) # {})
        /\ \A key \in DOMAIN baselines :
              /\ baselines[key].run_count = Cardinality(RowsCounted(logical, key))
              /\ baselines[key].run_count >= 1
              /\ baselines[key].present

----------------------------------------------------------------------------
(* DataprocFact and its JSON form (repositories/bigquery_repository.py) *)

\* anomaly_flags={} of a fact that has no payload yet.
EmptyFlags == [empty |-> TRUE]

\* A JSON column of the serialized fact: the text json.dumps wrote, or None.
JsonText(doc) == [json |-> "text", doc |-> doc]
JsonNull == [json |-> "null"]
IsJson(x) == "json" \in DOMAIN x

\* bool(app): the "app" mapping has a key.
AppTruthy(app) ==
    \/ ~IsNone(app.app_vcore_seconds)
    \/ ~IsNone(app.app_memory_gb_seconds)
    \/ ~IsNone(app.executor_peak)

\* bool(job_metrics): spark_event_metrics has a key.
MetricsTruthy(m) == AppTruthy(m.app) \/ ~m.spark.empty

\* json.dumps(payload["anomaly_flags"]) if payload["anomaly_flags"] else None
DumpsFlags(flags) == IF flags = EmptyFlags THEN JsonNull ELSE JsonText(flags)

\* json.dumps(payload["job_metrics"]) if payload["job_metrics"] else None
DumpsMetrics(m) == IF MetricsTruthy(m) THEN JsonText(m) ELSE JsonNull

\* DataprocFact.to_json
to_json(f) ==
    [f EXCEPT !.job_metrics = DumpsMetrics(@),
              !.anomaly_flags = DumpsFlags(@)]

\* One of the three branches of __post_init__: a non-empty string is parsed, None
\* becomes {}, anything else is kept.
ParseColumn(value) ==
    IF ~IsJson(value) THEN value
    ELSE IF value.json = "text" THEN value.doc      \* json.loads of what json.dumps wrote
    ELSE EmptyFlags

\* Mutant: a JSON string is kept as the string it is.
DataprocFactFromJson_KeepText(payload) == payload

\* DataprocFact(**payload), with __post_init__
DataprocFactFromJson(payload) ==
    [payload EXCEPT !.job_metrics = ParseColumn(@),
                    !.anomaly_flags = ParseColumn(@)]

\* anomaly_flags.get(...) with the defaults the readers use.
FlagsHasIssues(flags) == IF "has_issues" \in DOMAIN flags THEN flags.has_issues ELSE FALSE
FlagsFindings(flags) == IF "findings" \in DOMAIN flags THEN flags.findings ELSE <<>>
FlagsRecommendations(flags) ==
    IF "recommendations" \in DOMAIN flags THEN flags.recommendations ELSE <<>>

----------------------------------------------------------------------------
(* _build_fact and the loop of build_performance_memory (tools/dataproc_pipeline.py) *)

\* The first inner job that is a dict, 0 when there is none.
FirstDictJob(jobs) ==
    IF \E i \in 1..Len(jobs) : jobs[i].isdict
    THEN CHOOSE i \in 1..Len(jobs) :
            jobs[i].isdict /\ \A j \in 1..(i - 1) : ~jobs[j].isdict
    ELSE 0

\* _format_spark_event_snippet raises: _format_metric_value formats an integer beyond
\* the float range with .2f (OverflowError).
SnippetRaises(rs) ==
    \/ /\ AppTruthy(rs.app)
       /\ \/ Overflows(rs.app.app_vcore_seconds)
          \/ Overflows(rs.app.app_memory_gb_seconds)
    \/ /\ rs.spark_event_metrics.jobs_is_list
       /\ FirstDictJob(rs.spark_event_metrics.jobs) # 0
       /\ Overflows(rs.spark_event_metrics.jobs[FirstDictJob(rs.spark_event_metrics.jobs)]
                        .max_over_median_ratio)

\* The fact of a run before its payload is attached.
BareFact(now, rs) ==
    [ingest_timestamp |-> now,
     cluster_name |-> StrOr(cluster_name(rs), "unknown"),
     job_id |-> primary_job_id(rs),
     job_state |-> StrOr(rs.status, "UNKNOWN"),
     job_start_time |-> rs.application_start_time,
     job_end_time |-> rs.application_end_time,
     duration_seconds |-> duration_seconds(rs),
     job_metrics |-> [app |-> rs.app, spark |-> rs.spark_event_metrics],
     anomaly_flags |-> EmptyFlags]

\* Mutant: the baseline is looked up by the logical job id.
BaselineOfRun_ByLogicalId(map, rs) == BaselineGet(map, LogicalJobId(primary_job_id(rs)))

\* baseline = baselines.get(job_id)
BaselineOfRun(map, rs) == BaselineGet(map, primary_job_id(rs))

\* The payload of a run: neither a cluster profile nor a job family nor a run identifier
\* is passed.
PayloadOfRun(now, rs, map) ==
    synthesize_anomaly_flags(BareFact(now, rs), BaselineOfRun(map, rs),
                             rs.spark_event_metrics, RunCostSummary(rs),
                             NoClusterProfile, NoneStr, NoneStr)

\* The pair _build_fact returns once the payload is there, or that building raised.
FactWithPayload(bare, snippet_raises, payload) ==
    IF snippet_raises \/ payload.raised
    THEN [raised |-> TRUE, fact |-> bare, has_issues |-> FALSE]
    ELSE [raised |-> FALSE,
          fact |-> [bare EXCEPT !.anomaly_flags = payload],
          has_issues |-> payload.has_issues]

\* _build_fact: <<fact, has_issues>>, or that it raised.
_build_fact(now, rs, map) ==
    FactWithPayload(BareFact(now, rs), SnippetRaises(rs), PayloadOfRun(now, rs, map))

\* Mutant: the fact is appended and has_anomaly is left as it was.
AfterRun_IssuesNotCounted(acc, b) ==
    IF b.raised THEN [acc EXCEPT !.raised = TRUE]
    ELSE [acc EXCEPT !.facts = Append(@, b.fact)]

\* facts.append(fact); has_anomaly = has_anomaly or has_issues: the locals after one
\* more run, or that _build_fact raised.
AfterRun(acc, b) ==
    IF b.raised THEN [acc EXCEPT !.raised = TRUE]
    ELSE [acc EXCEPT !.facts = Append(@, b.fact),
                     !.has_anomaly = @ \/ b.has_issues]

\* The locals after a run that is skipped when its fact cannot be built.
AfterRunSkipping(acc, b) ==
    IF b.raised THEN acc
    ELSE [acc EXCEPT !.facts = Append(@, b.fact),
                     !.has_anomaly = @ \/ b.has_issues]

\* The baseline map with the run just built folded in.
Learnt(map, b) ==
    [k \in DOMAIN map \cup {b.fact.job_id} |->
        IF k = b.fact.job_id
        THEN BaselineStats(b.fact.duration_seconds, None, None, None, 1)
        ELSE map[k]]

\* Mutant: a run whose fact cannot be built is skipped and the loop goes on.
RECURSIVE BuildFacts_SkipFailedRun(_, _, _, _, _)
BuildFacts_SkipFailedRun(runs, i, now, map, acc) ==
    IF i > Len(runs) THEN acc
    ELSE BuildFacts_SkipFailedRun(runs, i + 1, now, map,
                                  AfterRunSkipping(acc, _build_fact(now, runs[i], map)))

\* Mutant: each fact built is folded into the baseline map before the next run is
\* evaluated.
RECURSIVE BuildFacts_LearnWhileBuilding(_, _, _, _, _)
BuildFacts_LearnWhileBuilding(runs, i, now, map, acc) ==
    IF i > Len(runs) \/ acc.raised THEN acc
    ELSE BuildFacts_LearnWhileBuilding(runs, i + 1, now,
                                       Learnt(map, [fact |-> BareFact(now, runs[i])]),
                                       AfterRun(acc, _build_fact(now, runs[i], map)))

\* The loop over run_states from run i on; acc holds the locals facts and has_anomaly,
\* and whether _build_fact raised, which ends the loop and the call.
RECURSIVE BuildFacts(_, _, _, _, _)
BuildFacts(runs, i, now, map, acc) ==
    IF i > Len(runs) \/ acc.raised THEN acc
    ELSE BuildFacts(runs, i + 1, now, map, AfterRun(acc, _build_fact(now, runs[i], map)))

NoFactsBuilt == [raised |-> FALSE, facts |-> <<>>, has_anomaly |-> FALSE]

\* The row insert_rows_json writes for a serialized fact.
RowOf(payload) ==
    FactRow(payload.job_id, payload.duration_seconds, payload.ingest_timestamp,
            IF payload.job_metrics.json = "text" THEN payload.job_metrics.doc.app
            ELSE NoApp)

----------------------------------------------------------------------------
(* The three tools on one session (specification PipelineSpec) *)

MaxRuns == 2           \* runs an ingestion returns
MaxDay == 1            \* last day on which a cycle reads the clock
MaxTableRows == 4      \* rows of the performance table

Seconds(n) == n * 10   \* tenths of a second

\* A run of one inner job with the given skew ratio.
Run(job_id, cluster, status, start, end, app, ratio) ==
    SparkRunState(start, end, status, cluster, job_id, NoneStr, NoneStr, app,
                  IF IsNone(ratio) THEN EmptySparkMetrics
                  ELSE SparkMetrics(<<Job(Num(1), ratio)>>, <<>>))

\* A run of etl twice as long as its history, a run filed under the bare id that is half
\* as long again, a run of another job with skewed tasks, a run whose metrics hold an
\* integer beyond the float range, and a run that has not ended and has no id.
RunValues ==
    { Run("etl_a1b2c3", "cluster-a", "SUCCEEDED", Iso(0, TRUE, 0), Iso(Seconds(200), TRUE, 0),
          AppOf(Num(1200), None, None), None),
      Run("etl", "cluster-a", "SUCCEEDED", Iso(0, FALSE, 0), Iso(Seconds(150), FALSE, 0),
          AppOf(Num(600), None, None), None),
      Run("agg_a1b2", "cluster-b", "SUCCEEDED", Iso(0, TRUE, 0), Iso(Seconds(100), TRUE, 0),
          NoApp, Num(4)),
      Run("etl_0d9e8f7a6b", "cluster-a", "SUCCEEDED", Iso(0, TRUE, 0),
          Iso(Seconds(100), TRUE, 0), NoApp, Huge),
      Run(NoneStr, NoneStr, NoneStr, Iso(0, TRUE, 0), NoTime, NoApp, None) }

\* The batches fetch_run_state_records returns: of one run any, of more runs those that
\* start with the long run of etl or with the run whose metrics overflow.
RunBatches ==
    {b \in SeqsUpTo(RunValues, MaxRuns) :
        Len(b) > 1 => \/ primary_job_id(b[1]) = "etl_a1b2c3"
                      \/ primary_job_id(b[1]) = "etl_0d9e8f7a6b"}

\* The performance table before the first cycle: empty, or with runs of etl under both
\* suffixes and the bare id, the oldest on the first day of the window of the first
\* cycle.
Histories ==
    { <<>>,
      << FactRow("etl_a1b2c3", Num(Seconds(100)), 0, AppOf(Num(600), None, None)) >>,
      << FactRow("etl_0d9e8f7a6b", Num(Seconds(100)), 1 - BaselineDays,
                 AppOf(Num(600), None, None)),
         FactRow("etl", Num(Seconds(100)), 0, AppOf(Num(600), None, None)) >> }

PipelineInit ==
    /\ ConfigIdle
    /\ DetectorsIdle
    /\ facts = <<>>
    /\ report = NoReport
    /\ run_state = NoRunState
    /\ fact_table \in Histories
    /\ as_of = 0
    /\ dry_run \in BOOLEAN
    /\ session = EmptySession
    /\ response = NoResponse
    /\ baselines = <<>>
    /\ built = <<>>

\* ingest_dataproc_signals: the runs fetch_run_state_records returns, one of batches,
\* are cached, unless the query fails.
ingest_dataproc_signals(batches) ==
    /\ \E runs \in batches, failed \in BOOLEAN :
          IF failed
          THEN /\ response' = [call |-> "ingest_dataproc_signals", raised |-> TRUE]
               /\ UNCHANGED session
          ELSE /\ session' = [session EXCEPT
                                 !.dataproc_ingestion = [present |-> TRUE, runs |-> runs]]
               /\ response' = [call |-> "ingest_dataproc_signals", raised |-> FALSE,
                               run_count |-> Len(runs)]
    /\ UNCHANGED <<config_vars, detect_vars, report_vars, run_state, fact_table, as_of, dry_run,
                   baselines, built>>

\* Mutant: the early return says nothing about why no row was persisted.
NothingToBuild_WithoutMessage(message) ==
    [call |-> "build_performance_memory", raised |-> FALSE, failed_in |-> "nothing",
     persisted_rows |-> 0, dry_run |-> dry_run, has_anomalies |-> FALSE,
     message |-> "none"]

\* The return value of build_performance_memory when there is nothing to build from.
NothingToBuild(message) ==
    [call |-> "build_performance_memory", raised |-> FALSE, failed_in |-> "nothing",
     persisted_rows |-> 0, dry_run |-> dry_run, has_anomalies |-> FALSE,
     message |-> message]

BuildRaised(where) ==
    [call |-> "build_performance_memory", raised |-> TRUE, failed_in |-> where,
     persisted_rows |-> 0, dry_run |-> dry_run, has_anomalies |-> FALSE,
     message |-> "none"]

\* The facts as state["dataproc_facts"] holds them.
Serialized(built_facts) == [i \in 1..Len(built_facts) |-> to_json(built_facts[i])]

\* The rows insert_rows_json appends.
RowsOf(serialized) == [i \in 1..Len(serialized) |-> RowOf(serialized[i])]

\* Mutant: the rows are streamed whatever dry_run says.
insert_daily_facts_IgnoreDryRun(table, rows, dry) == table \o rows

\* insert_daily_facts, when the streaming insert reports no error: the table afterwards.
insert_daily_facts(table, rows, dry) ==
    IF rows = <<>> THEN table
    ELSE IF dry THEN table
    ELSE table \o rows

\* Mutant: the facts are cached in the session before they are handed to the sink.
BuildCycle_CacheBeforeInsert(fault, now, map, loop) ==
    /\ as_of' = now
    /\ baselines' = map
    /\ built' = loop.facts
    /\ IF loop.raised
       THEN /\ response' = BuildRaised("_build_fact")
            /\ UNCHANGED <<fact_table, session>>
       ELSE /\ session' = [session EXCEPT
                              !.dataproc_facts = [present |-> TRUE,
                                                  rows |-> Serialized(loop.facts)]]
            /\ IF ~dry_run /\ fault = "insert_daily_facts"
               THEN /\ response' = BuildRaised(fault)
                    /\ UNCHANGED fact_table
               ELSE /\ Len(fact_table) + Len(loop.facts) <= MaxTableRows
                    /\ fact_table' = insert_daily_facts(fact_table,
                                                        RowsOf(Serialized(loop.facts)),
                                                        dry_run)
                    /\ response' = [call |-> "build_performance_memory",
                                    raised |-> FALSE,
                                    failed_in |-> "nothing",
                                    persisted_rows |-> Len(loop.facts),
                                    dry_run |-> dry_run,
                                    has_anomalies |-> loop.has_anomaly,
                                    message |-> "none"]

\* build_performance_memory from utc_now() on: map is what load_baselines returned and
\* loop what the loop over the runs left.
BuildCycle(fault, now, map, loop) ==
    /\ as_of' = now
    /\ IF fault = "load_baselines"
       THEN /\ response' = BuildRaised(fault)
            /\ UNCHANGED <<fact_table, session, baselines, built>>
       ELSE /\ baselines' = map
            /\ built' = loop.facts
            /\ IF loop.raised
               THEN /\ response' = BuildRaised("_build_fact")
                    /\ UNCHANGED <<fact_table, session>>
               ELSE IF ~dry_run /\ fault = "insert_daily_facts"
               THEN /\ response' = BuildRaised(fault)
                    /\ UNCHANGED <<fact_table, session>>
               ELSE /\ Len(fact_table) + Len(loop.facts) <= MaxTableRows
                    /\ fact_table' = insert_daily_facts(fact_table,
                                                        RowsOf(Serialized(loop.facts)),
                                                        dry_run)
                    /\ session' = [session EXCEPT
                                      !.dataproc_facts = [present |-> TRUE,
                                                          rows |-> Serialized(loop.facts)]]
                    /\ response' = [call |-> "build_performance_memory",
                                    raised |-> FALSE,
                                    failed_in |-> "nothing",
                                    persisted_rows |-> Len(loop.facts),
                                    dry_run |-> dry_run,
                                    has_anomalies |-> loop.has_anomaly,
                                    message |-> "none"]

\* The BigQuery call of build_performance_memory that fails, if any.
Faults == {"none", "ensure_performance_table", "load_baselines", "insert_daily_facts"}

\* build_performance_memory.  fault names the BigQuery call that fails, if any; now is
\* utc_now(), a day after the clock was last read and no later than last_day; upper is
\* the middle value APPROX_QUANTILES picks.
build_performance_memory(faults, last_day) ==
    /\ \E fault \in faults, now \in {as_of + 1}, upper \in BOOLEAN :
          IF ~session.dataproc_ingestion.present
          THEN /\ response' = NothingToBuild("no run state payload")
               /\ UNCHANGED <<fact_table, as_of, session, baselines, built>>
          ELSE IF session.dataproc_ingestion.runs = <<>>
          THEN /\ response' = NothingToBuild("no run state records")
               /\ UNCHANGED <<fact_table, as_of, session, baselines, built>>
          ELSE IF fault = "ensure_performance_table"
          THEN /\ response' = BuildRaised(fault)
               /\ UNCHANGED <<fact_table, as_of, session, baselines, built>>
          ELSE /\ now <= last_day
               /\ BuildCycle(fault, now,
                             load_baselines(fact_table, now, BaselineDays, upper),
                             BuildFacts(session.dataproc_ingestion.runs, 1, now,
                                        load_baselines(fact_table, now, BaselineDays, upper),
                                        NoFactsBuilt))
    /\ UNCHANGED <<config_vars, detect_vars, report_vars, run_state, dry_run>>

\* The text of an action, None when the finding has none.
ActionText(action) == IF action = <<>> THEN NoneStr ELSE ToString(action)

\* The fact as build_status_report reads it.
ReportView(f) ==
    LET flags == f.anomaly_flags
    IN  [job_id |-> f.job_id,
         cluster_name |-> f.cluster_name,
         job_state |-> f.job_state,
         duration_seconds |-> f.duration_seconds,
         anomaly_flags |->
             [findings |-> [k \in 1..Len(FlagsFindings(flags)) |->
                               [severity |-> FlagsFindings(flags)[k].severity,
                                message |-> FlagsFindings(flags)[k].message,
                                action |-> ActionText(FlagsFindings(flags)[k].action)]],
              job_family |-> NoneStr,
              run_identifier |-> NoneStr,
              recommendations |-> [k \in 1..Len(FlagsRecommendations(flags)) |->
                                      ActionText(FlagsRecommendations(flags)[k])],
              baseline_reference |-> IF "baseline_reference" \in DOMAIN flags
                                     THEN flags.baseline_reference ELSE NoBaseline,
              has_issues |-> FlagsHasIssues(flags)]]

\* generate_dataproc_report: the report of the cached facts, or the notice that none is
\* cached.
GenerateDataprocReport ==
    /\ LET cached == session.dataproc_facts
           decoded == [i \in 1..Len(cached.rows) |-> DataprocFactFromJson(cached.rows[i])]
           text == IF ~cached.present \/ cached.rows = <<>>
                   THEN [present |-> TRUE, kind |-> "no_facts", rendered |-> <<>>,
                         status |-> NoReport]
                   ELSE [present |-> TRUE, kind |-> "status", rendered |-> decoded,
                         status |-> build_status_report(
                                        [i \in 1..Len(decoded) |-> ReportView(decoded[i])])]
       IN  /\ session' = [session EXCEPT !.dataproc_report = text]
           /\ response' = [call |-> "generate_dataproc_report", raised |-> FALSE,
                           report |-> text]
    /\ UNCHANGED <<config_vars, detect_vars, report_vars, run_state, fact_table, as_of, dry_run,
                   baselines, built>>

IngestDataprocSignals == ingest_dataproc_signals(RunBatches)

BuildPerformanceMemory == build_performance_memory(Faults, MaxDay)

PipelineNext ==
    \/ IngestDataprocSignals
    \/ BuildPerformanceMemory
    \/ GenerateDataprocReport

PipelineSpec == PipelineInit /\ [][PipelineNext]_vars

----------------------------------------------------------------------------
(* Claims about the build cycle *)

\* The last call was a build_performance_memory cut short by _build_fact raising.
CycleAbortedByARun ==
    response.call = "build_performance_memory" /\ response.failed_in = "_build_fact"

\* C13: when _build_fact fails for one run of the batch, the facts of the other runs are
\* still assembled and cached.  The loop of build_performance_memory has no handler, so
\* this does not hold.
C13_OtherRunsSurviveAFailedRun ==
    LET others == BuildFacts_SkipFailedRun(session.dataproc_ingestion.runs, 1, as_of,
                                           baselines, NoFactsBuilt).facts
    IN  (CycleAbortedByARun /\ others # <<>>) =>
            /\ session.dataproc_facts.present
            /\ session.dataproc_facts.rows = Serialized(others)

C17_RunsAreBuiltIndependently ==
    [][(as_of' # as_of /\ response'.failed_in # "load_baselines") =>
          /\ \E upper \in BOOLEAN :
                baselines' = load_baselines(fact_table, as_of', BaselineDays, upper)
          /\ \A i \in 1..Len(built') :
                built'[i] = _build_fact(as_of', session.dataproc_ingestion.runs[i],
                                        baselines').fact]_vars

C17_Witness ==
    /\ response.call = "build_performance_memory"
    /\ response.persisted_rows > 0
    /\ Len(built) > 1
    /\ built[1].job_id = built[2].job_id
    /\ baselines # <<>>

\* C20: with dry_run no call changes the fact table, and a build cycle that raises
\* nothing still builds a fact for every run and caches the facts.
C20_DryRunNeverWrites ==
    [][dry_run =>
          /\ fact_table' = fact_table
          /\ (as_of' # as_of /\ ~response'.raised) =>
                /\ Len(built') = Len(session.dataproc_ingestion.runs)
                /\ session'.dataproc_facts = [present |-> TRUE, rows |-> Serialized(built')]
                /\ response'.persisted_rows = Len(built')]_vars

C20_Witness ==
    /\ dry_run
    /\ response.call = "build_performance_memory"
    /\ response.persisted_rows > 0
    /\ session.dataproc_facts.present
    /\ Len(session.dataproc_facts.rows) > 1
    /\ fact_table \in Histories

----------------------------------------------------------------------------
(* Totality of the detectors (specification Spec) *)

DetectorNames ==
    {"detect_job_runtime_anomaly", "detect_task_straggler", "detect_cost_regression",
     "detect_cluster_rightsizing"}

\* C16: each of the four detectors returns a finding or none, whatever is missing, null
\* or of a non-numeric type in its arguments, and never raises.  detect_cluster_rightsizing
\* compares total_workers with 0 as it finds it, and float() of an integer beyond the
\* float range raises OverflowError, so this does not hold.
C16_DetectorsNeverRaise ==
    op \in DetectorNames => result # Raised

----------------------------------------------------------------------------
(* Loading the configuration (specification ConfigSpec) *)

\* The DATAPROC_* variables: unset, empty, or set.
Environments ==
    [project_id : {CfgAbsent, CfgStr(""), CfgStr("env-project")},
     region : {CfgAbsent, CfgStr("env-region")},
     lookback_hours : {CfgAbsent, CfgStr("12"), CfgStr("abc")},
     bq_dataset : {CfgAbsent, CfgStr("env_dataset")},
     run_state_dataset : {CfgAbsent, CfgStr("env_run_state")},
     run_state_table : {CfgAbsent},
     dry_run : {CfgAbsent, CfgStr("TRUE"), CfgStr("0")}]

\* The overrides: a key is left out or given, with the type of its field or as a text.
OverrideValues ==
    [project_id : {CfgAbsent, CfgStr("demo-project")},
     region : {CfgAbsent, CfgStr("us-central1")},
     lookback_hours : {CfgAbsent, CfgInt(6), CfgStr("6"), CfgStr("abc")},
     bq_dataset : {CfgAbsent, CfgStr("demo_dataset")},
     run_state_dataset : {CfgAbsent, CfgStr("demo_run_state"), CfgStr("")},
     run_state_table : {CfgAbsent, CfgStr("demo_table")},
     dry_run : {CfgAbsent, CfgBool(TRUE), CfgBool(FALSE), CfgStr("Yes")}]

ConfigInit ==
    /\ DetectorsIdle
    /\ PipelineIdle
    /\ facts = <<>>
    /\ report = NoReport
    /\ environ \in Environments
    /\ overrides \in OverrideValues
    /\ config = NoConfig

LoadConfig ==
    /\ config = NoConfig
    /\ config' = load_config(environ, overrides)
    /\ UNCHANGED <<detect_vars, report_vars, pipeline_vars, environ, overrides>>

ConfigNext == LoadConfig

ConfigSpec == ConfigInit /\ [][ConfigNext]_vars

\* The required variables are not both set.
RequiredEnvAbsent == ~CfgTruthy(environ.project_id) \/ ~CfgTruthy(environ.region)

\* The overrides name both required fields.
SuppliesRequired == overrides.project_id # CfgAbsent /\ overrides.region # CfgAbsent

\* The value from_overrides makes of an override: int() for the integer field, the
\* text test for dry_run, None for an empty optional field, str() for the rest.
Coerced(field, value) ==
    CASE field = "lookback_hours" -> CfgInt(IntOf(value))
      [] field = "dry_run" -> CfgBool(IsTrueText(StrOf(value)))
      [] field = "run_state_dataset" -> (IF CfgTruthy(value) THEN value ELSE CfgNone)
      [] OTHER -> CfgStr(StrOf(value))

\* The override of the integer field, if any, is one int() accepts.
OverridesConvert == ~IntRaises(GetOr(overrides, "lookback_hours", CfgInt(DefaultLookbackHours)))

\* C21 as stated: with overrides that supply project_id and region load_config succeeds
\* although the required variables are absent, every overridden field equals its
\* override and every other field has its default; with the environment present an
\* overridden field still equals its override.  An empty run_state_dataset becomes None,
\* a text for an integer field becomes the integer, and a text that is no integer makes
\* the call raise, so this does not hold of every override.
C21_OverriddenFieldsEqualOverrides ==
    (config # NoConfig /\ SuppliesRequired) =>
        /\ RequiredEnvAbsent =>
              /\ IsConfig(config)
              /\ \A f \in ConfigFields :
                    config[f] = GetOr(overrides, f, ConfigDefaults[f])
              /\ run_state_dataset_name(config) = config.bq_dataset
                    \/ overrides.run_state_dataset # CfgAbsent
        /\ (~RequiredEnvAbsent /\ IsConfig(config)) =>
              \A f \in ConfigFields :
                 overrides[f] # CfgAbsent => config[f] = overrides[f]

\* C21: with overrides that supply project_id and region and whose integer fields
\* convert, load_config succeeds although the required variables are absent; every
\* overridden field is its override converted to the type of the field (dry_run true
\* exactly for a true bool or the texts 1, true, yes in any case; an empty optional
\* field None) and every other field has its default, so that run_state_dataset_name is
\* bq_dataset unless run_state_dataset is overridden; with the environment present an
\* overridden field is still its converted override.
C21_OverriddenFieldsAreCoercedOverrides ==
    (config # NoConfig /\ SuppliesRequired /\ OverridesConvert) =>
        /\ IsConfig(config)
        /\ \A f \in ConfigFields :
              overrides[f] # CfgAbsent => config[f] = Coerced(f, overrides[f])
        /\ RequiredEnvAbsent =>
              /\ \A f \in ConfigFields :
                    overrides[f] = CfgAbsent => config[f] = ConfigDefaults[f]
              /\ overrides.run_state_dataset = CfgAbsent =>
                    run_state_dataset_name(config) = config.bq_dataset

\* The test of the repository, with the environment present or absent.
C21_Witness ==
    /\ IsConfig(config)
    /\ environ.dry_run = CfgStr("0")
    /\ environ.lookback_hours = CfgStr("12")
    /\ overrides.project_id = CfgStr("demo-project")
    /\ overrides.lookback_hours = CfgInt(6)
    /\ overrides.dry_run = CfgBool(TRUE)
    /\ overrides.run_state_dataset = CfgAbsent
    /\ config.dry_run = CfgBool(TRUE)
    /\ config.lookback_hours = CfgInt(6)

----------------------------------------------------------------------------
(* The lists of the payload (specification Spec) *)

\* The place of the detector that emits a kind in the order of the calls.
DetectorRank(kind) ==
    CASE kind = "job_runtime_regression" -> 1
      [] kind = "task_straggler_detected" -> 2
      [] kind = "cost_regression" -> 3
      [] kind \in {"cluster_underutilized", "cluster_capacity_near_limit"} -> 4

\* What the four detectors return for the arguments of the call, in declaration order.
DetectorReturns ==
    << detect_job_runtime_anomaly(fact, baseline),
       detect_task_straggler(fact, spark_metrics),
       detect_cost_regression(fact, baseline, cost_summary),
       detect_cluster_rightsizing(fact, cluster_profile, cost_summary) >>

\* C22: the findings of a payload are exactly the findings the four detectors return,
\* each once, in the order runtime, straggler, cost, right-sizing.
C22_FindingsInDetectorOrder ==
    (op = "synthesize_anomaly_flags" /\ ~result.raised) =>
        LET fs == result.findings
        IN  /\ \A i \in 1..Len(fs), j \in 1..Len(fs) :
                  i < j => DetectorRank(fs[i].kind) < DetectorRank(fs[j].kind)
            /\ \A i \in 1..Len(fs) : fs[i] = DetectorReturns[DetectorRank(fs[i].kind)]
            /\ \A d \in 1..4 :
                  IsAnomaly(DetectorReturns[d]) => \E i \in 1..Len(fs) : fs[i] = DetectorReturns[d]

\* All four detectors fire.
C22_Witness ==
    /\ op = "synthesize_anomaly_flags"
    /\ ~result.raised
    /\ Len(result.findings) = 4
    /\ result.findings[3].kind = "cost_regression"

HasAction(finding) == finding.action # <<>>

\* C23: the recommendations of a payload are the actions of its findings that have one,
\* in finding order, and no action text occurs twice: the four detectors word their
\* actions differently and each contributes at most one finding.
C23_RecommendationsWithoutRepeats ==
    (op = "synthesize_anomaly_flags" /\ ~result.raised) =>
        LET with_action == SelectSeq(result.findings, HasAction)
            rec == result.recommendations
        IN  /\ rec = [i \in 1..Len(with_action) |-> with_action[i].action]
            /\ \A i \in 1..Len(rec), j \in 1..Len(rec) : i # j => rec[i] # rec[j]

C23_Witness ==
    /\ op = "synthesize_anomaly_flags"
    /\ ~result.raised
    /\ Len(result.recommendations) = 4
    /\ result.recommendations[1] = <<"ReviewRecentChanges">>
    /\ result.recommendations[4] = <<"IncreaseCapacity">>

----------------------------------------------------------------------------
(* The stage a straggler finding names (specification Spec) *)

\* The id of a stage as the mapping holds it: "stage_id", or "stageId" when that is missing.
HeldStageId(stage) == IF ~IsNone(stage.stage_id) THEN stage.stage_id ELSE stage.stageId

\* The stages of the run's metrics that have an id (0 included) and a numeric
\* max task duration.
IdentifiedStages ==
    IF spark_metrics.present /\ ~spark_metrics.empty /\ spark_metrics.stages_is_list
    THEN {i \in 1..Len(spark_metrics.stages) :
            /\ spark_metrics.stages[i].isdict
            /\ ~IsNone(HeldStageId(spark_metrics.stages[i]))
            /\ Numeric(spark_metrics.stages[i].max_task_duration_ms)}
    ELSE {}

\* The score of stage i of the metrics: max_task_duration_ms * (max / p95 if that exceeds 1).
HeldStageScore(i) ==
    StageScore([max_task_duration_ms |->
                    _safe_float(spark_metrics.stages[i].max_task_duration_ms),
                p95_task_duration_ms |->
                    _safe_float(spark_metrics.stages[i].p95_task_duration_ms)])

\* The first of the identified stages of maximum score.
TopScoringStage ==
    LET top == {i \in IdentifiedStages :
                  \A j \in IdentifiedStages :
                      HeldStageScore(i)[1] * HeldStageScore(j)[2]
                          >= HeldStageScore(j)[1] * HeldStageScore(i)[2]}
    IN  CHOOSE i \in top : \A j \in top : i <= j

\* C24: a straggler finding on metrics with at least one stage that has an id and a
\* numeric max task duration names, in its evidence and its action, the first stage of
\* maximum score among those stages, a stage of id 0 included.
C24_FindingNamesTopScoringStage ==
    (op = "detect_task_straggler" /\ IsAnomaly(result) /\ IdentifiedStages # {}) =>
        LET stage == spark_metrics.stages[TopScoringStage]
        IN  /\ result.evidence.stage # <<>>
            /\ result.evidence.stage[1].stage_id = HeldStageId(stage)
            /\ result.evidence.stage[1].max_task_duration_ms
                   = _safe_float(stage.max_task_duration_ms)
            /\ result.action = <<"TargetStage", HeldStageId(stage), stage.name>>

----------------------------------------------------------------------------
(* Successive cycles over overlapping lookback windows (specification CyclesSpec) *)

MaxCycleDay == 2       \* last day on which a cycle of CyclesSpec reads the clock

\* The runs of etl: with a lookback of 24 hours and a cycle a day, a run started within the
\* last day is fetched by two successive cycles.
RunsOfEtl == {rs \in RunValues : primary_job_id(rs) \in {"etl", "etl_a1b2c3"}}

OverlappingBatches == SeqsUpTo(RunsOfEtl, MaxRuns)

\* An empty performance table, and rows are streamed.
CyclesInit ==
    /\ ConfigIdle
    /\ DetectorsIdle
    /\ facts = <<>>
    /\ report = NoReport
    /\ run_state = NoRunState
    /\ fact_table = <<>>
    /\ as_of = 0
    /\ dry_run = FALSE
    /\ session = EmptySession
    /\ response = NoResponse
    /\ baselines = <<>>
    /\ built = <<>>

IngestOverlappingWindow == ingest_dataproc_signals(OverlappingBatches)

BuildNextCycle == build_performance_memory(Faults, MaxCycleDay)

CyclesNext ==
    \/ IngestOverlappingWindow
    \/ BuildNextCycle
    \/ GenerateDataprocReport

CyclesSpec == CyclesInit /\ [][CyclesNext]_vars

\* The row is the one a cycle writes for the run.
DerivedFrom(row, rs) == row = RowOf(to_json(BareFact(row.ingest_timestamp, rs)))

\* The rows of the table that load_baselines at day now folds into the baseline the run
\* is evaluated against.
BaselineRowsOf(rs, now) ==
    {i \in RawHistory(fact_table, now, BaselineDays) :
        LogicalJobId(fact_table[i].job_id) = primary_job_id(rs)}

\* C25: over any sequence of cycles, cycles that ingest the same run again included, no
\* row folded into the baseline a run is evaluated against is a fact of that same run.
C25_BaselineExcludesTheRunItself ==
    [][(response'.call = "build_performance_memory" /\ response'.failed_in = "nothing"
            /\ response'.persisted_rows > 0)
        => \A k \in 1..Len(session.dataproc_ingestion.runs) :
              \A i \in BaselineRowsOf(session.dataproc_ingestion.runs[k], as_of') :
                  ~DerivedFrom(fact_table[i], session.dataproc_ingestion.runs[k])]_vars

\* The fact is the one built from the run.
BuiltFrom(f, rs) ==
    /\ f.job_id = primary_job_id(rs)
    /\ f.job_start_time = rs.application_start_time
    /\ f.duration_seconds = duration_seconds(rs)

\* C26: a status report rendered after build_performance_memory returned shows the facts
\* of the runs of the most recent ingestion, one per run; after an ingestion of zero runs
\* it shows no fact cached by an earlier cycle.
C26_ReportShowsTheLatestIngestion ==
    [][(response.call = "build_performance_memory" /\ ~response.raised
            /\ response'.call = "generate_dataproc_report"
            /\ response'.report.kind = "status")
        => LET runs == session.dataproc_ingestion.runs
               rendered == response'.report.rendered
           IN  /\ Len(rendered) = Len(runs)
               /\ \A i \in 1..Len(rendered) : BuiltFrom(rendered[i], runs[i])]_vars

\* C27: a build_performance_memory that fails in load_baselines or in insert_daily_facts
\* leaves the session as it was: the cached facts are those of before the call, and
\* nothing of the batch that was being built is cached.
C27_FailedBuildLeavesTheSession ==
    [][(response'.call = "build_performance_memory" /\ response'.raised
            /\ response'.failed_in \in {"load_baselines", "insert_daily_facts"})
        => session' = session]_vars

\* The sink failed on a batch of one run while the two facts of an earlier cycle are
\* cached.
C27_Witness ==
    /\ response.call = "build_performance_memory"
    /\ response.failed_in = "insert_daily_facts"
    /\ Len(session.dataproc_ingestion.runs) = 1
    /\ session.dataproc_facts.present
    /\ Len(session.dataproc_facts.rows) = 2
    /\ Len(built) = 1

----------------------------------------------------------------------------
(* Claims about what build_performance_memory returns (specification PipelineSpec) *)

\* Nothing is cached to build from: no ingestion payload, or one without runs.
NothingIngested ==
    ~session.dataproc_ingestion.present \/ session.dataproc_ingestion.runs = <<>>

\* C28: build_performance_memory without a cached ingestion, or with one that holds no
\* run, returns persisted_rows 0 and has_anomalies false with a message that says why,
\* raises in no BigQuery call, reads neither the clock nor the baselines, leaves the
\* table as it is and leaves the session, cached facts and cached report included, as
\* it is.
C28_NothingToBuildIsANoOp ==
    [][(response'.call = "build_performance_memory" /\ NothingIngested)
        => /\ ~response'.raised
           /\ response'.persisted_rows = 0
           /\ ~response'.has_anomalies
           /\ response'.message \in {"no run state payload", "no run state records"}
           /\ (response'.message = "no run state payload")
                  <=> ~session.dataproc_ingestion.present
           /\ fact_table' = fact_table
           /\ as_of' = as_of
           /\ baselines' = baselines
           /\ session' = session]_vars

\* An empty ingestion after a full cycle: the facts and the report of that cycle stay.
C28_Witness ==
    /\ response.call = "build_performance_memory"
    /\ response.message = "no run state records"
    /\ session.dataproc_ingestion.runs = <<>>
    /\ session.dataproc_facts.present
    /\ session.dataproc_facts.rows # <<>>
    /\ session.dataproc_report.present
    /\ fact_table # <<>>

\* The last call was a build_performance_memory that went through to its last line.
BuildWentThrough ==
    /\ response.call = "build_performance_memory"
    /\ ~response.raised
    /\ response.message = "none"

\* C29: a build_performance_memory that goes through builds one fact per run of the
\* cached ingestion, in the order of the runs; persisted_rows and the length of the cached
\* dataproc_facts both equal the number of runs, and has_anomalies is true exactly when
\* the payload of some built fact has has_issues true.
C29_OneFactPerRun ==
    BuildWentThrough =>
        LET runs == session.dataproc_ingestion.runs
        IN  /\ Len(built) = Len(runs)
            /\ \A i \in 1..Len(built) : BuiltFrom(built[i], runs[i])
            /\ response.persisted_rows = Len(runs)
            /\ session.dataproc_facts.present
            /\ session.dataproc_facts.rows = Serialized(built)
            /\ response.has_anomalies
                   <=> \E i \in 1..Len(built) : built[i].anomaly_flags.has_issues

\* Two runs in a dry run, the second of them with skewed tasks.
C29_Witness ==
    /\ BuildWentThrough
    /\ dry_run
    /\ response.persisted_rows = 2
    /\ Len(session.dataproc_facts.rows) = 2
    /\ ~built[1].anomaly_flags.has_issues
    /\ built[2].anomaly_flags.has_issues
    /\ response.has_anomalies

----------------------------------------------------------------------------
(* The report of payloads of the synthesizer (specification ReportSpec) *)

\* The payload is one synthesize_anomaly_flags builds: its findings are info, warning or
\* critical, has_issues says whether one of them is a warning or critical, and the
\* recommendations are the actions of the findings.
ProducedBySynthesizer(f) ==
    LET flags == f.anomaly_flags
    IN  /\ \A k \in 1..Len(flags.findings) :
              flags.findings[k].severity \in {"info", "warning", "critical"}
        /\ flags.has_issues
              <=> \E k \in 1..Len(flags.findings) :
                     flags.findings[k].severity \in {"warning", "critical"}
        /\ flags.recommendations = ActionsOf(flags.findings)

\* The families of the facts that have issues.
FamiliesWithIssues == {FamilyAt(i) : i \in {j \in 1..Len(facts) :
                                              facts[j].anomaly_flags.has_issues}}

\* C30: in the report of a batch of facts whose payloads the synthesizer produced, every
\* regression line shows a warning or a critical finding of its family, the number in
\* the regressions header is the number of regression lines, and it is the number of
\* distinct families among the facts that have issues.
C30_RegressionsAreWarningsOrWorse ==
    (report.rendered /\ \A i \in 1..Len(facts) : ProducedBySynthesizer(facts[i])) =>
        /\ \A g \in 1..Len(report.regressions) :
              \E ik \in IssueFindings :
                  /\ FamilyAt(ik[1]) = report.regressions[g].family
                  /\ FindingAt(ik).message = report.regressions[g].message
                  /\ FindingAt(ik).severity \in {"warning", "critical"}
        /\ report.regression_count = Len(report.regressions)
        /\ report.regression_count = Cardinality(FamiliesWithIssues)

\* Two runs of etl with issues, the first holding a warning and an info finding, and a run
\* of another job with an info finding only: one regression line.
C30_Witness ==
    /\ report.rendered
    /\ Len(facts) = 3
    /\ \A i \in 1..Len(facts) : ProducedBySynthesizer(facts[i])
    /\ facts[1].anomaly_flags.has_issues /\ facts[2].anomaly_flags.has_issues
    /\ FamilyAt(1) = "etl" /\ FamilyAt(2) = "etl" /\ FamilyAt(3) = "agg_c3"
    /\ Len(facts[1].anomaly_flags.findings) = 2
    /\ facts[1].anomaly_flags.findings[2].severity = "info"
    /\ Len(facts[3].anomaly_flags.findings) = 1
    /\ ~facts[3].anomaly_flags.has_issues
    /\ report.regression_count = 1
    /\ Len(report.regressions) = 1

====
